---- MODULE Spec2Model ----
(***************************************************************************)
(* A model of moviepy's Clip core (moviepy/Clip.py), its decorators        *)
(* (moviepy/decorators.py) and the audio clips built on it                 *)
(* (moviepy/audio/AudioClip.py).                                           *)
(*                                                                         *)
(* Objects live in a heap: a sequence of attribute dictionaries, an        *)
(* object's identity being its index.  A Python attribute that was never   *)
(* assigned is a name outside the DOMAIN of the dictionary, so hasattr is  *)
(* a DOMAIN test.  An optional value is None (the empty tuple) or          *)
(* Some(v) (the one-element tuple), so that "is None" is a test TLC can    *)
(* always evaluate.  Times are floating-point numbers of MantissaBits      *)
(* significant bits, sums and differences being rounded (fadd, fsub);      *)
(* the times at which iter_frames samples are rationals <<num, den>>.      *)
(*                                                                         *)
(* A call is an operator from (heap, receiver, arguments) to a result      *)
(* [h, out, v]: the heap after the call, "ok" or the name of the           *)
(* exception raised, and the value returned.  A function is the sequence   *)
(* of its decorators, outermost first, ending with its body; apply_f runs  *)
(* them in the order of the source.  decorator.decorator is the            *)
(* third-party library of that name: the decorated function keeps the      *)
(* signature of the                                                        *)
(* original and hands every argument of that signature to the caller       *)
(* positionally, defaults filled in, with an empty keyword dictionary.     *)
(***************************************************************************)
EXTENDS Integers, Sequences, FiniteSets, TLC

VARIABLES
    heap,   \* the objects (clips) created so far; identity = index
    cur,    \* the clip the calling program currently holds
    ret,    \* the last call made: [op, recv, a, out, v, log]
    nops,   \* number of calls made so far
    gen,    \* the generator returned by the last iter_frames call, or None
    lastq,  \* per object, the time of the last get_frame made on it, or None
    threads \* per thread, the get_frame call it is in and the calls it finished

vars == <<heap, cur, ret, nops, gen, lastq, threads>>

\* ------------------------------------------------------------------ bounds
MaxT == 2          \* time arguments range over 0..MaxT
MinT == 2          \* negative time arguments range over -MinT..-1
MaxOps == 2        \* calls made by the program under Spec
MaxCascadeOps == 1 \* calls made by the program under SpecCascade
MaxChainOps == 2   \* calls made by the program under SpecOps
MaxFrameOps == 4   \* calls made by the program under SpecFrame
MaxPlayOps == 3    \* calls made by the program under SpecPlaying
MaxPlayT == 3      \* largest time asked of is_playing
MaxIterOps == 2    \* calls made by the program under SpecIter
MaxFps == 2        \* largest frame rate, in frames per second
MaxCutOps == 4     \* calls made by the program under SpecCut
CutD == 3          \* duration of the clips of SpecCut
TicksPerSecond == 2 \* resolution of time: one tick is 1/TicksPerSecond s
MantissaBits == 4  \* significant bits of a floating-point number
MaxFloatOps == 2   \* calls made by the program under SpecFloat
MaxFlOps == 4      \* calls made by the program under SpecFl
MaxCloseOps == 4   \* calls made by the program under SpecClose
MaxStrLen == 4     \* length of the strings handed to cvsecs, a few longer ones apart
MaxTupleLen == 4   \* length of the tuples handed to cvsecs
MaxCvOps == 2      \* cvsecs is applied to a value, then to what it returned
MaxRows == 2       \* rows of the sample tables, the 3- and 5-row tables apart
MaxArrayOps == 2   \* calls made by the program under SpecArray
MaxAudioT == 3     \* frame times of the audio programs range over -MaxAudioT..MaxAudioT ticks
MaxCompOps == 3    \* calls made by the program under SpecCompose, one more under SpecComposite
MaxCompLen == 2    \* children of a composite
MaxSubOps == 4     \* calls made by the program under SpecSub
MaxThreadOps == 4  \* calls made by the program and its threads under SpecThreads
MaxThreads == 2    \* threads started by the program under SpecThreads
MaxProcOps == 2    \* calls made by the program under SpecProc
MaxReturnCode == 2 \* largest return code of the external tool

\* ------------------------------------------------------------------ values
None == <<>>
Some(v) == <<v>>

OptTimes == {None} \cup {Some(t) : t \in 0..MaxT}
SignedTimes == {Some(t) : t \in (0 - MinT)..MaxT}

SetAttr(obj, name, val) == (name :> val) @@ obj
HasAttr(obj, name) == name \in DOMAIN obj
\* getattr(obj, name, None)
GetAttr(obj, name) == IF name \in DOMAIN obj THEN obj[name] ELSE None

Ok(h, v) == [h |-> h, out |-> "ok", v |-> v]
Raise(h, e) == [h |-> h, out |-> e, v |-> 0]

\* ------------------------------------------------------------------ float
\* Times are Python floats: binary floating-point numbers, every sum and
\* difference being rounded to the nearest number with MantissaBits
\* significant bits, a tie going to the even significand.  A number is an
\* integer count of a fixed power-of-two unit, so an integer below
\* 2^MantissaBits is exact.
RECURSIVE Quantum(_, _)
Quantum(x, q) == IF x \div q < 2^MantissaBits THEN q ELSE Quantum(x, 2 * q)

RoundAbs(x) ==
    LET q == Quantum(x, 1)
        m == x \div q
        r == x % q
    IN IF 2 * r > q \/ (2 * r = q /\ m % 2 = 1) THEN (m + 1) * q ELSE m * q

RoundF(x) == IF x >= 0 THEN RoundAbs(x) ELSE 0 - RoundAbs(0 - x)

\* x + y and x - y on floats
fadd(x, y) == RoundF(x + y)
fsub(x, y) == RoundF(x - y)

\* ------------------------------------------------------------------ tools.py
\* A Python value handed to cvsecs is a record of its type ty and its
\* content: num is <<x>> for the number x, items the items of a tuple or a
\* list, chars the characters of a string.  The numbers that cvsecs computes
\* with are exact fractions <<numerator, denominator>>.
PyNone == [ty |-> "NoneType", num |-> <<>>, items |-> <<>>, chars |-> <<>>]
PyFloat(x) == [ty |-> "float", num |-> <<x>>, items |-> <<>>, chars |-> <<>>]
PyTuple(items) == [ty |-> "tuple", num |-> <<>>, items |-> items, chars |-> <<>>]
PyStr(chars) == [ty |-> "str", num |-> <<>>, items |-> <<>>, chars |-> chars]
PyDict == [ty |-> "dict", num |-> <<>>, items |-> <<>>, chars |-> <<>>]

Val(v) == [out |-> "ok", v |-> v]
Exc(e) == [out |-> e, v |-> PyNone]

RECURSIVE GCD(_, _)
GCD(a, b) == IF b = 0 THEN a ELSE GCD(b, a % b)
Rat(n, d) == IF n = 0 THEN <<0, 1>> ELSE <<n \div GCD(n, d), d \div GCD(n, d)>>
RatAdd(x, y) == Rat(x[1] * y[2] + y[1] * x[2], x[2] * y[2])
RatMul(k, x) == Rat(k * x[1], x[2])

DigitChars == {"0", "1", "2", "3", "4", "5", "6", "7", "8", "9"}
DigitVal(c) ==
    CASE c = "0" -> 0 [] c = "1" -> 1 [] c = "2" -> 2 [] c = "3" -> 3 [] c = "4" -> 4
      [] c = "5" -> 5 [] c = "6" -> 6 [] c = "7" -> 7 [] c = "8" -> 8 [] c = "9" -> 9

\* the string is a decimal numeral: digits with at most one point
IsNumeral(p) ==
    /\ \A i \in DOMAIN p : p[i] \in DigitChars \cup {"."}
    /\ Cardinality({i \in DOMAIN p : p[i] = "."}) <= 1
    /\ \E i \in DOMAIN p : p[i] \in DigitChars

\* the integer that the digits of the numeral spell, the point left out
RECURSIVE NumeralInt(_)
NumeralInt(p) ==
    IF p = <<>> THEN 0
    ELSE LET init == SubSeq(p, 1, Len(p) - 1)
         IN IF p[Len(p)] = "." THEN NumeralInt(init)
            ELSE 10 * NumeralInt(init) + DigitVal(p[Len(p)])

\* the number of digits after the point
Decimals(p) ==
    IF \E i \in DOMAIN p : p[i] = "."
    THEN Len(p) - (CHOOSE i \in DOMAIN p : p[i] = ".")
    ELSE 0

\* float(x): a number is itself, a string is parsed, anything else is a TypeError
Float(x) ==
    CASE x.ty = "float" -> Val(x)
      [] x.ty = "str" -> IF IsNumeral(x.chars)
                         THEN Val(PyFloat(Rat(NumeralInt(x.chars), 10^Decimals(x.chars))))
                         ELSE Exc("ValueError")
      [] OTHER -> Exc("TypeError")

\* time.replace(',', '.')
Replace(s) == [i \in DOMAIN s |-> IF s[i] = "," THEN "." ELSE s[i]]

\* time.split(':')
RECURSIVE Split(_)
Split(s) ==
    IF \E i \in DOMAIN s : s[i] = ":"
    THEN LET i == CHOOSE i \in DOMAIN s : s[i] = ":" /\ \A j \in 1..(i - 1) : s[j] # ":"
         IN <<SubSeq(s, 1, i - 1)>> \o Split(SubSeq(s, i + 1, Len(s)))
    ELSE <<s>>

\* a tuple that reads (s, m, h)
TupleSecondsReversed(fs) ==
    CASE Len(fs) = 1 -> fs[1]
      [] Len(fs) = 2 -> RatAdd(RatMul(60, fs[2]), fs[1])
      [] Len(fs) = 3 -> RatAdd(RatAdd(RatMul(3600, fs[3]), RatMul(60, fs[2])), fs[1])

\* the seconds of the numbers (s,), (m, s) or (h, m, s)
TupleSeconds(fs) ==
    CASE Len(fs) = 1 -> fs[1]
      [] Len(fs) = 2 -> RatAdd(RatMul(60, fs[1]), fs[2])
      [] Len(fs) = 3 -> RatAdd(RatAdd(RatMul(3600, fs[1]), RatMul(60, fs[2])), fs[3])

\* float(item) of every item, or the first exception
Floats(items) ==
    LET fl == [i \in DOMAIN items |-> Float(items[i])]
    IN IF \E i \in DOMAIN fl : fl[i].out # "ok"
       THEN Exc(fl[CHOOSE i \in DOMAIN fl : fl[i].out # "ok"
                                           /\ \A j \in 1..(i - 1) : fl[j].out = "ok"].out)
       ELSE Val([i \in DOMAIN fl |-> fl[i].v.num[1]])

\* cvsecs(time) for a number: return float(time)
cvsecs_number(time) == Val(PyFloat(time.num[1]))

\* cvsecs(time)
cvsecs(time) ==
    CASE time.ty = "NoneType" -> Val(time)
      [] time.ty = "float" -> cvsecs_number(time)
      [] time.ty = "tuple" ->
            IF Len(time.items) \in 1..3
            THEN LET fs == Floats(time.items)
                 IN IF fs.out # "ok" THEN fs ELSE Val(PyFloat(TupleSeconds(fs.v)))
            ELSE Val(time)
      [] time.ty = "str" ->
            LET s == Replace(time.chars)
            IN IF ~(\E i \in DOMAIN s : s[i] = ":") THEN Float(PyStr(s))
               ELSE LET parts == Floats([i \in DOMAIN Split(s) |-> PyStr(Split(s)[i])])
                    IN IF parts.out # "ok" THEN parts
                       ELSE IF Len(parts.v) \in 2..3
                       THEN Val(PyFloat(TupleSeconds(parts.v)))
                       ELSE Val(PyStr(s))
      [] OTHER -> Val(time)

\* cvsecs on a time of a clip, None or Some(number): the branch of the number
Seconds(t) == IF t = None THEN None ELSE cvsecs_number(PyFloat(t[1])).v.num

\* ------------------------------------------------------------------ Clip
\* Clip.__init__ (the attribute "memoize_frame" is the one the source sets)
Clip_init ==
    [start |-> Some(0), end |-> None, duration |-> None,
     memoize |-> FALSE, memoized_t |-> None, memoize_frame |-> None,
     make_frame |-> None]

\* copy.copy(x): a new object with the same attributes; copy(None) is None
ShallowCopy(h, ref) ==
    IF ref = None THEN [h |-> h, v |-> None]
    ELSE [h |-> Append(h, h[ref[1]]), v |-> Some(Len(h) + 1)]

\* a copy that is the clip itself
Clip_copy_alias(h, c) == [h |-> h, v |-> c]

\* Clip.copy
Clip_copy(h, c) ==
    LET h1 == Append(h, h[c])
        n == Len(h1)
        a == IF HasAttr(h[c], "audio") THEN ShallowCopy(h1, h[c].audio)
             ELSE [h |-> h1, v |-> None]
        h2 == IF HasAttr(h[c], "audio")
              THEN [a.h EXCEPT ![n] = SetAttr(@, "audio", a.v)] ELSE h1
        m == IF HasAttr(h[c], "mask") THEN ShallowCopy(h2, h[c].mask)
             ELSE [h |-> h2, v |-> None]
        h3 == IF HasAttr(h[c], "mask")
              THEN [m.h EXCEPT ![n] = SetAttr(@, "mask", m.v)] ELSE h2
    IN [h |-> h3, v |-> n]

\* ------------------------------------------------------------------ decorators
\* A function is a value: <<d1, ..., dn, body>>, the decorators applied to the
\* body of a method, the outermost first.  Each is a record: [dec |-> name] a
\* decorator, [dec |-> "convert_to_seconds", varnames |-> positions], or
\* [dec |-> "def", name |-> the method].
Dec(name) == [dec |-> name]
Conv(varnames) == [dec |-> "convert_to_seconds", varnames |-> varnames]
Def(name) == [dec |-> "def", name |-> name]

RECURSIVE apply_f(_, _, _, _), outplace(_, _, _, _), apply_to_mask(_, _, _, _)
RECURSIVE apply_to_audio(_, _, _, _), convert_to_seconds(_, _, _, _, _)

\* outplace: newclip = clip.copy(); f(newclip, *a); return newclip
outplace(f, h, clip, a) ==
    LET cp == Clip_copy(h, clip)
        r == apply_f(f, cp.h, cp.v, a)
    IN IF r.out # "ok" THEN r ELSE Ok(r.h, cp.v)

\* an apply_to_mask that leaves the mask of the new clip as f made it
apply_to_mask_skip(f, h, clip, a) == apply_f(f, h, clip, a)

\* apply_to_mask: newclip = f(clip); if clip.mask: newclip.mask = f(clip.mask)
apply_to_mask(f, h, clip, a) ==
    LET r == apply_f(f, h, clip, a)
    IN IF r.out # "ok" THEN r
       ELSE IF GetAttr(r.h[clip], "mask") # None
            THEN LET rm == apply_f(f, r.h, r.h[clip].mask[1], a)
                 IN IF rm.out # "ok" THEN rm
                    ELSE Ok([rm.h EXCEPT ![r.v] = SetAttr(@, "mask", Some(rm.v))], r.v)
            ELSE r

\* apply_to_audio: the same for clip.audio
apply_to_audio(f, h, clip, a) ==
    LET r == apply_f(f, h, clip, a)
    IN IF r.out # "ok" THEN r
       ELSE IF GetAttr(r.h[clip], "audio") # None
            THEN LET ra == apply_f(f, r.h, r.h[clip].audio[1], a)
                 IN IF ra.out # "ok" THEN ra
                    ELSE Ok([ra.h EXCEPT ![r.v] = SetAttr(@, "audio", Some(ra.v))], r.v)
            ELSE r

\* convert_to_seconds(varnames) / preprocess_args: cvsecs on the arguments at
\* the positions varnames that are not None
convert_to_seconds(varnames, f, h, clip, a) ==
    apply_f(f, h, clip,
            [i \in DOMAIN a |-> IF i \in varnames /\ a[i] # None THEN Seconds(a[i]) ELSE a[i]])

\* ------------------------------------------------------------------ timing mutators
\* a set_start that moves the start and nothing else
set_start_body_rigid(h, self, a) == Ok([h EXCEPT ![self].start = a[1]], None)

\* body of Clip.set_start(self, t, change_end): a = <<t, change_end>>
set_start_body(h, self, a) ==
    LET t == a[1]
        change_end == a[2]
        h1 == [h EXCEPT ![self].start = t]
    IN IF h1[self].duration # None /\ change_end
       THEN IF t = None THEN Raise(h1, "TypeError")
            ELSE Ok([h1 EXCEPT ![self].end = Some(fadd(t[1], h1[self].duration[1]))], None)
       ELSE IF h1[self].end # None /\ ~change_end
       THEN IF t = None THEN Raise(h1, "TypeError")
            ELSE Ok([h1 EXCEPT ![self].duration = Some(fsub(h1[self].end[1], t[1]))], None)
       ELSE Ok(h1, None)

\* Clip.set_start with its decorators
set_start(h, clip, a) ==
    apply_f(<<Dec("apply_to_mask"), Dec("apply_to_audio"), Conv({1}), Dec("outplace"), Def("set_start")>>, h, clip, a)

\* a set_end that takes the end for the duration, as if the clip started at 0
set_end_body_from_zero(h, self, a) ==
    IF a[1] = None THEN Raise(h, "TypeError")
    ELSE Ok([h EXCEPT ![self].end = a[1], ![self].duration = a[1]], None)

\* a set_end that leaves the duration as it was
set_end_body_stale(h, self, a) == Ok([h EXCEPT ![self].end = a[1]], None)

\* body of Clip.set_end(self, t): a = <<t>>
set_end_body(h, self, a) ==
    LET t == a[1]
        h1 == [h EXCEPT ![self].end = t]
    IN IF h1[self].start = None
       THEN IF h1[self].duration # None
            THEN IF t = None THEN Raise(h1, "TypeError")
                 ELSE Ok([h1 EXCEPT ![self].start = Some(fsub(t[1], h1[self].duration[1]))], None)
            ELSE Ok(h1, None)
       ELSE IF t = None THEN Raise(h1, "TypeError")
            ELSE Ok([h1 EXCEPT ![self].duration = Some(fsub(t[1], h1[self].start[1]))], None)

\* Clip.set_end with its decorators
set_end(h, clip, a) ==
    apply_f(<<Dec("apply_to_mask"), Dec("apply_to_audio"), Conv({1}), Dec("outplace"), Def("set_end")>>, h, clip, a)

\* a set_duration that never moves the start
set_duration_body_fixed_start(h, self, a) ==
    LET h1 == [h EXCEPT ![self].duration = a[1]]
    IN IF a[2]
       THEN IF a[1] = None THEN Ok([h1 EXCEPT ![self].end = None], None)
            ELSE IF h1[self].start = None THEN Raise(h1, "TypeError")
            ELSE Ok([h1 EXCEPT ![self].end = Some(fadd(h1[self].start[1], a[1][1]))], None)
       ELSE IF h1[self].end = None THEN Raise(h1, "ValueError")
            ELSE IF a[1] = None THEN Raise(h1, "TypeError")
            ELSE Ok(h1, None)

\* a set_duration that does not ask for an end
set_duration_body_lenient(h, self, a) ==
    LET h1 == [h EXCEPT ![self].duration = a[1]]
    IN IF a[2] /\ a[1] # None /\ h1[self].start # None
       THEN Ok([h1 EXCEPT ![self].end = Some(fadd(h1[self].start[1], a[1][1]))], None)
       ELSE IF ~a[2] /\ a[1] # None /\ h1[self].end # None
       THEN Ok([h1 EXCEPT ![self].start = Some(fsub(h1[self].end[1], a[1][1]))], None)
       ELSE Ok(h1, None)

\* body of Clip.set_duration(self, t, change_end): a = <<t, change_end>>
set_duration_body(h, self, a) ==
    LET t == a[1]
        change_end == a[2]
        h1 == [h EXCEPT ![self].duration = t]
    IN IF change_end
       THEN IF t = None THEN Ok([h1 EXCEPT ![self].end = None], None)
            ELSE IF h1[self].start = None THEN Raise(h1, "TypeError")
            ELSE Ok([h1 EXCEPT ![self].end = Some(fadd(h1[self].start[1], t[1]))], None)
       ELSE IF h1[self].end = None THEN Raise(h1, "ValueError")
            ELSE IF t = None THEN Raise(h1, "TypeError")
            ELSE Ok([h1 EXCEPT ![self].start = Some(fsub(h1[self].end[1], t[1]))], None)

\* Clip.set_duration with its decorators
set_duration(h, clip, a) ==
    apply_f(<<Dec("apply_to_mask"), Dec("apply_to_audio"), Conv({1}), Dec("outplace"), Def("set_duration")>>, h, clip, a)

\* ------------------------------------------------------------------ subclip
\* a subclip that takes a negative t_end as it is
subclip_body_absolute(h, self, a) ==
    LET cp == Clip_copy(h, self)
        n == cp.v
        t_end == IF a[2] = None THEN h[self].duration ELSE a[2]
    IN IF a[1] = None \/ t_end = None THEN Raise(h, "TypeError")
       ELSE Ok([cp.h EXCEPT ![n].start = a[1], ![n].end = t_end,
                            ![n].duration = Some(fsub(t_end[1], a[1][1]))], n)

\* a subclip whose frames are taken at another time of the source
subclip_body_remapped(h, self, a) ==
    LET r == subclip_body_absolute(h, self, a)
    IN IF r.out # "ok" THEN r
       ELSE Ok([r.h EXCEPT ![r.v].make_frame =
                  Some([kind |-> "fl", self |-> self,
                        fun |-> [kind |-> "time", name |-> "twice"]])], r.v)

\* body of Clip.subclip(self, t_start, t_end): a = <<t_start, t_end>>
subclip_body(h, self, a) ==
    LET dur == h[self].duration
        neg_start == a[1] # None /\ a[1][1] < 0
        neg_end == a[2] # None /\ a[2][1] < 0
        t_start == IF neg_start /\ dur # None THEN Some(fadd(dur[1], a[1][1])) ELSE a[1]
        t_end == IF a[2] = None THEN dur
                 ELSE IF neg_end /\ dur # None THEN Some(fadd(dur[1], a[2][1])) ELSE a[2]
        cp == Clip_copy(h, self)
        n == cp.v
        h1 == [cp.h EXCEPT ![n].start = t_start, ![n].end = t_end]
    IN IF a[1] = None THEN Raise(h, "TypeError")            \* None < 0
       ELSE IF neg_start /\ dur = None THEN Raise(h, "ValueError")
       ELSE IF neg_end /\ dur = None THEN Raise(h, "ValueError")
       ELSE IF t_end = None THEN Raise(h1, "TypeError")     \* None - t_start
       ELSE Ok([h1 EXCEPT ![n].duration = Some(fsub(t_end[1], t_start[1]))], n)

\* Clip.subclip with its decorators
subclip(h, clip, a) ==
    apply_f(<<Conv({1, 2}), Dec("apply_to_mask"), Dec("apply_to_audio"), Def("subclip")>>, h, clip, a)

\* ------------------------------------------------------------------ frames
\* A frame function (the value of the make_frame attribute) is one of
\*   [kind |-> "src", name]             a function of the caller, t -> frame
\*   [kind |-> "fl", self, fun]         the closure make_frame built by Clip.fl
\*   [kind |-> "cutout", self, ta, tb]  the closure make_frame built by Clip.cutout
\* The fun of fl is [kind |-> "image", name], a transformation of gf(t), or
\* [kind |-> "time", name], the lambda gf, t: gf(t_func(t)) of Clip.fl_time.
\* A frame is [src, t, fx, born]: the source function and the time it was
\* computed for, the image transformations applied to it, and the call that
\* computed it (two frames are the same object iff they are equal).
\* A frame call returns [h, out, v, log]; log lists the get_frame and
\* make_frame invocations in the order they were made.
FOk(h, log, v) == [h |-> h, out |-> "ok", v |-> v, log |-> log]
FRaise(h, log, e) == [h |-> h, out |-> e, v |-> None, log |-> log]

\* the time maps handed to fl_time (those of its docstring)
t_func(name, t) ==
    CASE name = "twice" -> 2 * t
      [] name = "backwards" -> fsub(3, t)

RECURSIVE get_frame(_, _, _, _), make_frame(_, _, _, _)

\* calling the make_frame attribute of clip self
make_frame(h, log, self, t) ==
    LET mf == h[self].make_frame[1]
        log1 == Append(log, [call |-> "make_frame", clip |-> self, t |-> t])
    IN CASE mf.kind = "src" ->
              FOk(h, log1, Some([src |-> mf.name, t |-> t, fx |-> <<>>, born |-> nops + 1]))
         [] mf.kind = "fl" ->                       \* fun(self.get_frame, t)
              IF mf.fun.kind = "time"
              THEN get_frame(h, log1, mf.self, t_func(mf.fun.name, t))
              ELSE LET r == get_frame(h, log1, mf.self, t)
                   IN IF r.out # "ok" THEN r
                      ELSE IF r.v = None THEN FRaise(r.h, r.log, "TypeError")
                      ELSE FOk(r.h, r.log, Some([r.v[1] EXCEPT !.fx = Append(@, mf.fun.name),
                                                            !.born = nops + 1]))
         [] mf.kind = "cutout" ->
              IF mf.ta = None THEN FRaise(h, log1, "TypeError")
              ELSE IF t < mf.ta[1] THEN get_frame(h, log1, mf.self, t)
              ELSE IF mf.tb = None THEN FRaise(h, log1, "TypeError")
              ELSE get_frame(h, log1, mf.self, fadd(t, fsub(mf.tb[1], mf.ta[1])))

\* Clip.get_frame (convert_to_seconds(['t']) is cvsecs on t)
get_frame(h, log, self, t0) ==
    LET t == Seconds(Some(t0))[1]
        o == h[self]
        log1 == Append(log, [call |-> "get_frame", clip |-> self, t |-> t])
    IN IF o.make_frame = None THEN FRaise(h, log1, "ValueError")
       ELSE IF o.memoize
       THEN IF Some(t) = o.memoized_t
            THEN IF HasAttr(o, "memoized_frame") THEN FOk(h, log1, o.memoized_frame)
                 ELSE FRaise(h, log1, "AttributeError")
            ELSE LET r == make_frame(h, log1, self, t)
                 IN IF r.out # "ok" THEN r
                    ELSE FOk([r.h EXCEPT ![self] =
                                SetAttr([@ EXCEPT !.memoized_t = Some(t)], "memoized_frame", r.v)],
                             r.log, r.v)
       ELSE make_frame(h, log1, self, t)

\* ------------------------------------------------------------------ fl, fl_time
\* Clip.fl(fun, apply_to=None, keep_duration)
fl_plain(h, self, fun, keep_duration) ==
    LET cp == Clip_copy(h, self)
        n == cp.v
        h1 == [cp.h EXCEPT ![n].make_frame = Some([kind |-> "fl", self |-> self, fun |-> fun])]
    IN Ok(IF keep_duration THEN h1 ELSE [h1 EXCEPT ![n].duration = None], n)

\* the loop "for attr in apply_to" of Clip.fl on the new clip n
RECURSIVE fl_apply_to(_, _, _, _, _)
fl_apply_to(h, n, attrs, fun, keep_duration) ==
    IF attrs = <<>> THEN h
    ELSE LET attr == Head(attrs)
             h1 == IF HasAttr(h[n], attr) /\ h[n][attr] # None
                   THEN LET r == fl_plain(h, h[n][attr][1], fun, keep_duration)
                        IN [r.h EXCEPT ![n] = SetAttr(@, attr, Some(r.v))]
                   ELSE h
         IN fl_apply_to(h1, n, Tail(attrs), fun, keep_duration)

\* Clip.fl(fun, apply_to, keep_duration): a = <<fun, apply_to, keep_duration>>,
\* apply_to being None or the list of names
fl(h, self, a) ==
    LET r == fl_plain(h, self, a[1], a[3])
    IN IF a[2] = None THEN r
       ELSE Ok(fl_apply_to(r.h, r.v, a[2], a[1], a[3]), r.v)

\* Clip.fl_time(t_func, apply_to, keep_duration): a = <<name of t_func, apply_to, keep_duration>>
fl_time(h, self, a) == fl(h, self, <<[kind |-> "time", name |-> a[1]], a[2], a[3]>>)

\* ------------------------------------------------------------------ cutout
\* body of Clip.cutout(self, ta, tb): a = <<ta, tb>>
cutout_body(h, self, a) ==
    LET ta == a[1]
        tb == IF a[2] = None THEN h[self].duration ELSE a[2]
        cp == Clip_copy(h, self)
        n == cp.v
        h1 == [cp.h EXCEPT ![n].make_frame =
                 Some([kind |-> "cutout", self |-> self, ta |-> ta, tb |-> tb])]
    IN IF h[self].duration # None
       THEN IF ta = None \/ tb = None THEN Raise(h1, "TypeError")
            ELSE Ok([h1 EXCEPT ![n].duration =
                        Some(fsub(h[self].duration[1], fsub(tb[1], ta[1])))], n)
       ELSE Ok(h1, n)

\* Clip.cutout with its decorators
cutout(h, clip, a) ==
    apply_f(<<Dec("apply_to_mask"), Dec("apply_to_audio"), Conv({1, 2}), Def("cutout")>>, h, clip, a)

\* ------------------------------------------------------------------ setters
\* body of Clip.set_make_frame(self, make_frame): a = <<make_frame>>
set_make_frame_body(h, self, a) == Ok([h EXCEPT ![self].make_frame = a[1]], None)
set_make_frame(h, clip, a) == apply_f(<<Dec("outplace"), Def("set_make_frame")>>, h, clip, a)

\* body of Clip.set_fps(self, fps): a = <<fps>>
set_fps_body(h, self, a) == Ok([h EXCEPT ![self] = SetAttr(@, "fps", a[1])], None)
set_fps(h, clip, a) == apply_f(<<Dec("outplace"), Def("set_fps")>>, h, clip, a)

\* body of Clip.set_ismask(self, ismask): a = <<ismask>>
set_ismask_body(h, self, a) == Ok([h EXCEPT ![self] = SetAttr(@, "ismask", a[1])], None)
set_ismask(h, clip, a) == apply_f(<<Dec("outplace"), Def("set_ismask")>>, h, clip, a)

\* body of Clip.set_memoize(self, memoize): a = <<memoize>>
set_memoize_body(h, self, a) ==
    LET h1 == [h EXCEPT ![self].memoize = a[1]]
    IN IF ~a[1]
       THEN Ok([h1 EXCEPT ![self] =
                  SetAttr([@ EXCEPT !.memoized_t = None], "memoized_frame", None)], None)
       ELSE Ok(h1, None)
set_memoize(h, clip, a) == apply_f(<<Dec("outplace"), Def("set_memoize")>>, h, clip, a)

\* ------------------------------------------------------------------ calling a function
\* the body of the method named name
def_body(name, h, self, a) ==
    CASE name = "set_start" -> set_start_body(h, self, a)
      [] name = "set_end" -> set_end_body(h, self, a)
      [] name = "set_duration" -> set_duration_body(h, self, a)
      [] name = "subclip" -> subclip_body(h, self, a)
      [] name = "cutout" -> cutout_body(h, self, a)
      [] name = "set_make_frame" -> set_make_frame_body(h, self, a)
      [] name = "set_fps" -> set_fps_body(h, self, a)
      [] name = "set_ismask" -> set_ismask_body(h, self, a)
      [] name = "set_memoize" -> set_memoize_body(h, self, a)

\* f(clip, *a): the outermost decorator of f is called with the rest of f
apply_f(f, h, clip, a) ==
    LET d == Head(f)
    IN CASE d.dec = "outplace" -> outplace(Tail(f), h, clip, a)
         [] d.dec = "apply_to_mask" -> apply_to_mask(Tail(f), h, clip, a)
         [] d.dec = "apply_to_audio" -> apply_to_audio(Tail(f), h, clip, a)
         [] d.dec = "convert_to_seconds" -> convert_to_seconds(d.varnames, Tail(f), h, clip, a)
         [] d.dec = "def" -> def_body(d.name, h, clip, a)

\* ------------------------------------------------------------------ close
\* a close that leaves the audio and the mask open
close_shallow(h, self) ==
    Ok([h EXCEPT ![self] = SetAttr([@ EXCEPT !.make_frame = None], "memoized_frame", None)],
       None)

\* Clip.close(self): the audio and the mask, when present and not None, are
\* closed first; make_frame is an attribute of every clip (Clip.__init__)
RECURSIVE close(_, _)
close(h, self) ==
    LET h1 == IF GetAttr(h[self], "audio") # None THEN close(h, h[self].audio[1]).h ELSE h
        h2 == IF GetAttr(h1[self], "mask") # None THEN close(h1, h1[self].mask[1]).h ELSE h1
        h3 == IF HasAttr(h2[self], "make_frame")
              THEN [h2 EXCEPT ![self].make_frame = None] ELSE h2
    IN Ok([h3 EXCEPT ![self] = SetAttr(@, "memoized_frame", None)], None)

\* ------------------------------------------------------------------ is_playing
\* A time argument of is_playing is [array |-> FALSE, v |-> <<t>>], a number, or
\* [array |-> TRUE, v |-> <<t1, ..., tn>>], a numpy array; so is its result.
Scalar(v) == [array |-> FALSE, v |-> <<v>>]
Array(v) == [array |-> TRUE, v |-> v]

SeqMin(s) == CHOOSE x \in {s[i] : i \in DOMAIN s} : \A i \in DOMAIN s : x <= s[i]
SeqMax(s) == CHOOSE x \in {s[i] : i \in DOMAIN s} : \A i \in DOMAIN s : x >= s[i]

\* Clip.is_playing(self, t) (cvsecs returns an array as it is)
is_playing(h, self, a) ==
    LET t == a[1]
        o == h[self]
    IN IF o.start = None THEN Raise(h, "TypeError")
       ELSE IF t.array
       THEN LET tmin == SeqMin(t.v)
                tmax == SeqMax(t.v)
            IN IF o.end # None /\ tmin >= o.end[1] THEN Ok(h, Scalar(FALSE))
               ELSE IF tmax < o.start[1] THEN Ok(h, Scalar(FALSE))
               ELSE Ok(h, Array([i \in DOMAIN t.v |->
                          t.v[i] >= o.start[1] /\ (o.end = None \/ t.v[i] <= o.end[1])]))
       ELSE Ok(h, Scalar(Seconds(t.v)[1] >= o.start[1]
                         /\ (o.end = None \/ Seconds(t.v)[1] <= o.end[1])))

\* ------------------------------------------------------------------ iter_frames
\* Times are counted in ticks, TicksPerSecond of them in a second; fps is in
\* frames per second.  A sample time is the rational <<num, den>> of ticks.

\* int(x / y): truncation toward zero
IntDiv(x, y) == IF x >= 0 THEN x \div y ELSE 0 - ((0 - x) \div y)

RECURSIVE apply_fk(_, _, _, _, _), requires_duration(_, _, _, _, _)
RECURSIVE use_clip_fps_by_default(_, _, _, _, _)

\* requires_duration
requires_duration(f, h, clip, a, k) ==
    IF h[clip].duration = None THEN Raise(h, "ValueError") ELSE apply_fk(f, h, clip, a, k)

\* use_clip_fps_by_default: a holds the positional arguments, k the keywords
use_clip_fps_by_default(f, h, clip, a, k) ==
    IF ~("fps" \in DOMAIN k) /\ HasAttr(h[clip], "fps") /\ h[clip].fps # None
    THEN apply_fk(f, h, clip, a, ("fps" :> h[clip].fps) @@ k)
    ELSE apply_fk(f, h, clip, a, k)

iter_frames_params == <<"fps", "with_times", "logger", "dtype">>

\* Calling the generator function Clip.iter_frames(self, fps, with_times,
\* logger, dtype) with positional a and keywords k: the arguments are bound
\* (a parameter given twice is a TypeError) and a generator is returned, no
\* line of the body having run.
iter_frames_body(h, self, a, k) ==
    IF \E i \in DOMAIN a : iter_frames_params[i] \in DOMAIN k
    THEN Raise(h, "TypeError")
    ELSE Ok(h, [clip |-> self,
                fps |-> IF "fps" \in DOMAIN k THEN k.fps ELSE a[1],
                with_times |-> a[2],
                pc |-> "start", i |-> 0, total |-> 0, duration |-> None])

\* f(clip, *a, **k)
apply_fk(f, h, clip, a, k) ==
    LET d == Head(f)
    IN CASE d.dec = "requires_duration" -> requires_duration(Tail(f), h, clip, a, k)
         [] d.dec = "use_clip_fps_by_default" -> use_clip_fps_by_default(Tail(f), h, clip, a, k)
         [] d.dec = "def" -> iter_frames_body(h, clip, a, k)

\* Clip.iter_frames with its decorators: a = <<fps, with_times, logger, dtype>>.
\* The function that decorator.decorator builds passes every parameter of the
\* signature by position: the keywords are empty.
iter_frames(h, clip, a) ==
    apply_fk(<<Dec("requires_duration"), Dec("use_clip_fps_by_default"), Def("iter_frames")>>,
             h, clip, a, <<>>)

\* times = np.linspace(0, duration, total_frames + 1)[:-1]
linspace_times(duration, total, i) == Rat(i * duration, total)

\* next(generator): the body of iter_frames up to its next yield.
\* Returns [h, out, v, log, g]: g is the generator afterwards; out is "ok"
\* (v the item yielded), "StopIteration", or the exception raised.
iter_next(h, g) ==
    LET o == h[g.clip]
        starting == g.pc = "start"
        noFps == starting /\ g.fps = None /\ ~HasAttr(o, "fps")
        fps == IF starting /\ g.fps = None /\ HasAttr(o, "fps") THEN o.fps ELSE g.fps
        duration == IF starting THEN o.duration ELSE g.duration
        over == [g EXCEPT !.pc = "done"]
    IN IF g.pc = "done" THEN FRaise(h, <<>>, "StopIteration") @@ [g |-> g]
       ELSE IF noFps THEN FRaise(h, <<>>, "AttributeError") @@ [g |-> over]
       ELSE IF fps = None THEN FRaise(h, <<>>, "ValueError") @@ [g |-> over]
       ELSE IF duration = None THEN FRaise(h, <<>>, "TypeError") @@ [g |-> over]
       ELSE LET total == IF starting
                         THEN IntDiv(duration[1] * fps[1], TicksPerSecond)
                         ELSE g.total
            IN IF g.i >= total
               THEN FRaise(h, <<>>, "StopIteration") @@ [g |-> over]
               ELSE LET t == linspace_times(duration[1], total, g.i)
                        r == get_frame(h, <<>>, g.clip, t)
                        g1 == [g EXCEPT !.pc = "loop", !.fps = fps, !.total = total,
                                        !.duration = duration, !.i = g.i + 1]
                    IN IF r.out # "ok" THEN r @@ [g |-> over]
                       ELSE FOk(r.h, r.log,
                                IF g.with_times THEN [t |-> t, frame |-> r.v]
                                ELSE [frame |-> r.v])
                            @@ [g |-> g1]

\* ------------------------------------------------------------------ AudioArrayClip
\* Audio times are counted in ticks, TicksPerSecond of them in a second; fps
\* is in samples per second.  A sample is the tuple of its channels, a table
\* (the array of AudioArrayClip) a tuple of samples.  No operation of the
\* audio programs sets memoize, so get_frame is its make_frame call.

\* int(self.fps * t): truncation toward zero
array_ind(fps, t) == IntDiv(fps * t, TicksPerSecond)

\* 0 * row
ZeroLike(row) == [j \in DOMAIN row |-> 0]

\* numpy broadcasting of a row of one column to n columns
Broadcast(row, n) == IF Len(row) = n THEN row ELSE [j \in 1..n |-> row[1]]

\* the function make_frame of AudioArrayClip.__init__; self is the clip
\* that was constructed
AudioArrayClip_make_frame(h, log, self, t) ==
    LET o == h[self]
        n == Len(o.array)
    IN IF t.array
       THEN LET array_inds == [k \in DOMAIN t.v |-> array_ind(o.fps, t.v[k])]
                in_array == [k \in DOMAIN t.v |-> array_inds[k] > 0 /\ array_inds[k] < n]
            IN FOk(h, log, [k \in DOMAIN t.v |->
                              IF in_array[k] THEN Broadcast(o.array[array_inds[k] + 1], 2)
                              ELSE <<0, 0>>])
       ELSE LET i == array_ind(o.fps, t.v[1])
            IN IF i < 0 \/ i >= n
               THEN IF n = 0 THEN FRaise(h, log, "IndexError")
                    ELSE FOk(h, log, ZeroLike(o.array[1]))
               ELSE FOk(h, log, o.array[i + 1])

\* ------------------------------------------------------------------ CompositeAudioClip
\* x + y on samples, with broadcasting
SampleAdd(x, y) ==
    LET n == IF Len(x) >= Len(y) THEN Len(x) ELSE Len(y)
    IN [j \in 1..n |-> fadd(Broadcast(x, n)[j], Broadcast(y, n)[j])]

\* frame * np.array([part]).T for a number t (part is a bool) and for an
\* array (part is one bool per row)
Gated(frame, part) ==
    IF part.array
    THEN [k \in DOMAIN frame |-> IF part.v[k] THEN frame[k] ELSE ZeroLike(frame[k])]
    ELSE IF part.v[1] THEN frame ELSE ZeroLike(frame)

\* t - c.start
Shifted(t, start) ==
    IF t.array THEN Array([k \in DOMAIN t.v |-> fsub(t.v[k], start)])
    ELSE Scalar(fsub(t.v[1], start))

\* zero + sound
Mix(t, zero, sound) ==
    IF t.array THEN [k \in DOMAIN zero |-> SampleAdd(zero[k], sound[k])]
    ELSE SampleAdd(zero, sound)

RECURSIVE AudioClip_get_frame(_, _, _, _), Sounds(_, _, _, _, _, _)

\* zero + sum(sounds): acc is the sum so far, clips the children left, parts
\* their played_parts
Sounds(h, log, clips, parts, t, acc) ==
    IF clips = <<>> THEN FOk(h, log, acc)
    ELSE LET c == Head(clips)
             part == Head(parts)
         IN IF ~part.array /\ ~part.v[1]                     \* part is False
            THEN Sounds(h, log, Tail(clips), Tail(parts), t, acc)
            ELSE LET r == AudioClip_get_frame(h, log, c, Shifted(t, h[c].start[1]))
                 IN IF r.out # "ok" THEN r
                    ELSE Sounds(r.h, r.log, Tail(clips), Tail(parts), t,
                                Mix(t, acc, Gated(r.v, part)))

\* the function make_frame of CompositeAudioClip.__init__
CompositeAudioClip_make_frame(h, log, self, t) ==
    LET o == h[self]
        played == [k \in DOMAIN o.clips |-> is_playing(h, o.clips[k], <<t>>)]
        zero1 == [j \in 1..o.nchannels |-> 0]
        zero == IF t.array THEN [k \in DOMAIN t.v |-> zero1] ELSE zero1
    IN IF \E k \in DOMAIN played : played[k].out # "ok"
       THEN FRaise(h, log, "TypeError")
       ELSE Sounds(h, log, o.clips, [k \in DOMAIN played |-> played[k].v], t, zero)

\* Clip.get_frame on an audio clip: t is a number or an array, which cvsecs
\* returns as it is
AudioClip_get_frame(h, log, self, t) ==
    LET o == h[self]
        t1 == IF t.array THEN t ELSE Scalar(Seconds(t.v)[1])
        log1 == Append(log, [call |-> "get_frame", clip |-> self, t |-> t1])
    IN IF o.make_frame = None THEN FRaise(h, log1, "ValueError")
       ELSE IF o.make_frame[1].kind = "array"
       THEN AudioArrayClip_make_frame(h, log1, o.make_frame[1].self, t1)
       ELSE CompositeAudioClip_make_frame(h, log1, o.make_frame[1].self, t1)

\* AudioArrayClip.__init__(self, array, fps); the duration 1.0 * len(array) / fps
\* is a whole number of ticks for the rates of the programs (1 and TicksPerSecond)
AudioArrayClip_init(h, array, fps) ==
    LET n == Len(h) + 1
        o == [Clip_init EXCEPT !.make_frame = Some([kind |-> "array", self |-> n])]
        h1 == Append(h, SetAttr(SetAttr(o, "array", array), "fps", fps))
        h2 == [h1 EXCEPT ![n].duration = Some((Len(array) * TicksPerSecond) \div fps)]
        r == AudioClip_get_frame(h2, <<>>, n, Scalar(0))
    IN IF fps = 0 THEN Raise(h1, "ZeroDivisionError")
       ELSE IF r.out # "ok" THEN Raise(r.h, r.out)
       ELSE Ok([r.h EXCEPT ![n] = SetAttr(@, "nchannels", Len(r.v))], n)

\* a composite that takes the channel count of its first child
CompositeAudioClip_init_first(h, clips) ==
    LET n == Len(h) + 1
        o == [Clip_init EXCEPT !.make_frame = Some([kind |-> "composite", self |-> n])]
        ends == [k \in DOMAIN clips |-> h[clips[k]].end]
        h1 == Append(h, SetAttr(o, "clips", clips))
    IN IF \E k \in DOMAIN clips : ~HasAttr(h[clips[k]], "nchannels")
       THEN Raise(h1, "AttributeError")
       ELSE IF clips = <<>> THEN Raise(h1, "ValueError")
       ELSE LET h2 == [h1 EXCEPT ![n] = SetAttr(@, "nchannels", h[clips[1]].nchannels)]
            IN IF \E k \in DOMAIN ends : ends[k] = None THEN Ok(h2, n)
               ELSE LET m == SeqMax([k \in DOMAIN ends |-> ends[k][1]])
                    IN Ok([h2 EXCEPT ![n].duration = Some(m), ![n].end = Some(m)], n)

\* CompositeAudioClip.__init__(self, clips)
CompositeAudioClip_init(h, clips) ==
    LET n == Len(h) + 1
        o == [Clip_init EXCEPT !.make_frame = Some([kind |-> "composite", self |-> n])]
        ends == [k \in DOMAIN clips |-> h[clips[k]].end]
        h1 == Append(h, SetAttr(o, "clips", clips))
    IN IF \E k \in DOMAIN clips : ~HasAttr(h[clips[k]], "nchannels")
       THEN Raise(h1, "AttributeError")
       ELSE IF clips = <<>> THEN Raise(h1, "ValueError")
       ELSE LET h2 == [h1 EXCEPT ![n] = SetAttr(@, "nchannels",
                                         SeqMax([k \in DOMAIN clips |-> h[clips[k]].nchannels]))]
            IN IF \E k \in DOMAIN ends : ends[k] = None THEN Ok(h2, n)
               ELSE LET m == SeqMax([k \in DOMAIN ends |-> ends[k][1]])
                    IN Ok([h2 EXCEPT ![n].duration = Some(m), ![n].end = Some(m)], n)
\* ------------------------------------------------------------------ subprocess_call
\* The external tool is [launch, returncode, err]: whether sp.Popen starts
\* it, the code it exits with and what it writes to stderr.  A message is a
\* tuple of strings, the pieces it is made of.  The call gives
\* [out, proc, msg, launches, written]: "ok" or the exception, the process
\* object returned, the message of the exception, the number of sp.Popen
\* calls and what was written to stdout.
FailedCommand(cmd) == <<"Moviepy Error: failed command:\n", cmd, "\n">>

\* the try block of subprocess_call
subprocess_try(cmd, errorprint, tool) ==
    IF ~tool.launch
    THEN [out |-> "OSError", proc |-> None, msg |-> <<"not found">>,
          launches |-> 1, written |-> <<>>]
    ELSE IF tool.returncode # 0
    THEN [out |-> "IOError", proc |-> None, msg |-> <<tool.err>>, launches |-> 1,
          written |-> IF errorprint THEN <<<<tool.err>>>> ELSE <<>>]
    ELSE [out |-> "ok", proc |-> Some(tool), msg |-> <<>>, launches |-> 1, written |-> <<>>]

\* subprocess_call(cmd, logger, errorprint): the except clause catches every
\* Exception of the try block, the IOError it raised included
subprocess_call(cmd, errorprint, tool) ==
    LET r == subprocess_try(cmd, errorprint, tool)
    IN IF r.out = "ok" THEN r
       ELSE [out |-> "IOError", proc |-> None, msg |-> FailedCommand(cmd),
             launches |-> r.launches,
             written |-> IF errorprint THEN Append(r.written, FailedCommand(cmd))
                         ELSE r.written]
\* ------------------------------------------------------------------ threads
\* A thread is [clip, stack, last]: the clip it queries, the get_frame
\* calls it is in (the innermost last) and the result [t, out, v] of the
\* call it finished last, or None.  An activation of Clip.get_frame is
\* [clip, pc, t, memo, frame]; a thread may be suspended between any two
\* reads or writes of an attribute, and pc is the next one:
\*   "check"        if self.make_frame is None / if self.memoize /
\*                  if t == self.memoized_t
\*   "read"         return self.memoized_frame
\*   "make"         frame = self.make_frame(t)    (memo: on the memoize branch)
\*   "in_make"      self.make_frame(t) is in a get_frame of another clip
\*   "write_t"      self.memoized_t = t
\*   "write_frame"  self.memoized_frame = frame; return frame
NewFrame(c, t) == [clip |-> c, pc |-> "check", t |-> t, memo |-> FALSE, frame |-> None]

Top(stack) == stack[Len(stack)]
Pop(stack) == SubSeq(stack, 1, Len(stack) - 1)
SetTop(stack, f) == [stack EXCEPT ![Len(stack)] = f]

\* the get_frame that self.make_frame(t) begins with, if any: [out, clip, t]
InnerCall(h, self, t) ==
    LET mf == h[self].make_frame[1]
    IN CASE mf.kind = "src" -> [out |-> "leaf", clip |-> self, t |-> t]
         [] mf.kind = "fl" ->
              [out |-> "call", clip |-> mf.self,
               t |-> IF mf.fun.kind = "time" THEN t_func(mf.fun.name, t) ELSE t]
         [] mf.kind = "cutout" ->
              IF mf.ta = None THEN [out |-> "TypeError", clip |-> self, t |-> t]
              ELSE IF t < mf.ta[1] THEN [out |-> "call", clip |-> mf.self, t |-> t]
              ELSE IF mf.tb = None THEN [out |-> "TypeError", clip |-> self, t |-> t]
              ELSE [out |-> "call", clip |-> mf.self,
                    t |-> fadd(t, fsub(mf.tb[1], mf.ta[1]))]

\* what self.make_frame(t) makes of the frame v its get_frame returned: [out, v]
MadeOf(h, self, v) ==
    LET mf == h[self].make_frame[1]
    IN IF mf.kind = "fl" /\ mf.fun.kind = "image"
       THEN IF v = None THEN [out |-> "TypeError", v |-> None]
            ELSE [out |-> "ok", v |-> Some([v[1] EXCEPT !.fx = Append(@, mf.fun.name),
                                                        !.born = nops])]
       ELSE [out |-> "ok", v |-> v]

RECURSIVE Unwind(_, _, _, _)
\* the activation at the top of stack returns v, or raises out: the stack
\* and the result of the thread after it, as [stack, last]
Unwind(h, stack, out, v) ==
    IF Len(stack) = 1 THEN [stack |-> <<>>, last |-> Some([t |-> stack[1].t, out |-> out, v |-> v])]
    ELSE LET up == Pop(stack)
             f == Top(up)
             m == MadeOf(h, f.clip, v)
         IN IF out # "ok" THEN Unwind(h, up, out, None)
            ELSE IF m.out # "ok" THEN Unwind(h, up, m.out, None)
            ELSE IF f.memo THEN [stack |-> SetTop(up, [f EXCEPT !.pc = "write_t", !.frame = m.v]),
                                 last |-> None]
            ELSE Unwind(h, up, "ok", m.v)

\* the test of the cache made by get_frame
cache_hit(o, t) == Some(t) = o.memoized_t

\* one step of the innermost get_frame of a thread: [h, stack, last]
get_frame_step(h, stack) ==
    LET f == Top(stack)
        o == h[f.clip]
        ret_(out, v) == [h |-> h] @@ Unwind(h, stack, out, v)
        goto(g) == [h |-> h, stack |-> SetTop(stack, g), last |-> None]
    IN CASE f.pc = "check" ->
              IF o.make_frame = None THEN ret_("ValueError", None)
              ELSE IF o.memoize
              THEN IF cache_hit(o, f.t) THEN goto([f EXCEPT !.pc = "read"])
                   ELSE goto([f EXCEPT !.pc = "make", !.memo = TRUE])
              ELSE goto([f EXCEPT !.pc = "make"])
         [] f.pc = "read" ->
              IF HasAttr(o, "memoized_frame") THEN ret_("ok", o.memoized_frame)
              ELSE ret_("AttributeError", None)
         [] f.pc = "make" ->
              LET c == InnerCall(h, f.clip, f.t)
                  v == Some([src |-> o.make_frame[1].name, t |-> f.t, fx |-> <<>>,
                             born |-> nops])
              IN IF c.out = "call"
                 THEN [h |-> h, last |-> None,
                       stack |-> Append(SetTop(stack, [f EXCEPT !.pc = "in_make"]),
                                        NewFrame(c.clip, Seconds(Some(c.t))[1]))]
                 ELSE IF c.out # "leaf" THEN ret_(c.out, None)
                 ELSE IF f.memo THEN goto([f EXCEPT !.pc = "write_t", !.frame = v])
                 ELSE ret_("ok", v)
         [] f.pc = "write_t" ->
              [h |-> [h EXCEPT ![f.clip].memoized_t = Some(f.t)],
               stack |-> SetTop(stack, [f EXCEPT !.pc = "write_frame"]), last |-> None]
         [] f.pc = "write_frame" ->
              LET h1 == [h EXCEPT ![f.clip] = SetAttr(@, "memoized_frame", f.frame)]
              IN [h |-> h1] @@ Unwind(h1, stack, "ok", f.frame)
\* ------------------------------------------------------------------ the program
\* What a call leaves behind: on success the heap it produced; when it raised,
\* the objects that existed before the call (the temporaries it allocated are
\* unreachable and gone).
After(r) == IF r.out = "ok" THEN r.h ELSE SubSeq(r.h, 1, Len(heap))

\* the time of the last get_frame on each object, None if there was none
Queried(log, i) == {j \in DOMAIN log : log[j].call = "get_frame" /\ log[j].clip = i}
LastQueried(h, log) ==
    [i \in DOMAIN h |->
        IF Queried(log, i) # {}
        THEN Some(log[CHOOSE j \in Queried(log, i) : \A m \in Queried(log, i) : m <= j].t)
        ELSE IF i \in DOMAIN lastq THEN lastq[i] ELSE None]

\* a call that returns a clip, which the program holds from then on
Call(op, c, a, r) ==
    /\ heap' = After(r)
    /\ ret' = [op |-> op, recv |-> c, a |-> a, out |-> r.out, v |-> r.v, log |-> <<>>]
    /\ cur' = IF r.out = "ok" THEN r.v ELSE cur
    /\ nops' = nops + 1
    /\ lastq' = LastQueried(After(r), <<>>)
    /\ UNCHANGED <<gen, threads>>

\* a call that returns a value
Query(op, c, a, r, log) ==
    /\ heap' = After(r)
    /\ ret' = [op |-> op, recv |-> c, a |-> a, out |-> r.out, v |-> r.v, log |-> log]
    /\ nops' = nops + 1
    /\ lastq' = LastQueried(After(r), log)
    /\ UNCHANGED <<cur, gen, threads>>

SetStart(T) ==
    \E t \in T, change_end \in BOOLEAN :
        Call("set_start", cur, <<t, change_end>>, set_start(heap, cur, <<t, change_end>>))

SetEnd(T) ==
    \E t \in T :
        Call("set_end", cur, <<t>>, set_end(heap, cur, <<t>>))

SetDuration(T) ==
    \E t \in T, change_end \in BOOLEAN :
        Call("set_duration", cur, <<t, change_end>>, set_duration(heap, cur, <<t, change_end>>))

Subclip(TS, TE) ==
    \E t_start \in TS, t_end \in TE :
        Call("subclip", cur, <<t_start, t_end>>, subclip(heap, cur, <<t_start, t_end>>))

Cutout(TA, TB) ==
    \E ta \in TA, tb \in TB :
        Call("cutout", cur, <<ta, tb>>, cutout(heap, cur, <<ta, tb>>))

Fl(Funs, ApplyTo) ==
    \E fun \in Funs, apply_to \in ApplyTo, keep_duration \in BOOLEAN :
        Call("fl", cur, <<fun, apply_to, keep_duration>>,
             fl(heap, cur, <<fun, apply_to, keep_duration>>))

FlTime(Funs, ApplyTo) ==
    \E f \in Funs, apply_to \in ApplyTo, keep_duration \in BOOLEAN :
        Call("fl_time", cur, <<f, apply_to, keep_duration>>,
             fl_time(heap, cur, <<f, apply_to, keep_duration>>))

SetMakeFrame(Sources) ==
    \E mf \in Sources :
        Call("set_make_frame", cur, <<mf>>, set_make_frame(heap, cur, <<mf>>))

SetFps(Rates) ==
    \E fps \in Rates :
        Call("set_fps", cur, <<fps>>, set_fps(heap, cur, <<fps>>))

SetIsmask ==
    \E ismask \in BOOLEAN :
        Call("set_ismask", cur, <<ismask>>, set_ismask(heap, cur, <<ismask>>))

SetMemoize ==
    \E memoize \in BOOLEAN :
        Call("set_memoize", cur, <<memoize>>, set_memoize(heap, cur, <<memoize>>))

\* clip.get_frame(t) on any clip made so far
GetFrame(T) ==
    \E c \in DOMAIN heap, t \in T :
        LET r == get_frame(heap, <<>>, c, t)
        IN Query("get_frame", c, <<t>>, r, r.log)

\* clip.close() on any clip made so far
Close ==
    \E c \in DOMAIN heap :
        Query("close", c, <<>>, close(heap, c), <<>>)

IsPlaying(T) ==
    \E t \in T :
        Query("is_playing", cur, <<t>>, is_playing(heap, cur, <<t>>), <<>>)

\* g = clip.iter_frames(fps, with_times): fps None when it is left out
IterFrames(Rates) ==
    \E fps \in Rates, with_times \in BOOLEAN :
        LET a == <<fps, with_times, None, None>>
            r == iter_frames(heap, cur, a)
        IN /\ heap' = After(r)
           /\ ret' = [op |-> "iter_frames", recv |-> cur, a |-> a, out |-> r.out,
                      v |-> 0, log |-> <<>>]
           /\ gen' = IF r.out = "ok" THEN Some(r.v) ELSE gen
           /\ nops' = nops + 1
           /\ lastq' = LastQueried(After(r), <<>>)
           /\ UNCHANGED <<cur, threads>>

\* next(g)
IterNext ==
    /\ gen # None
    /\ gen[1].pc # "done"
    /\ LET r == iter_next(heap, gen[1])
       IN /\ heap' = r.h
          /\ ret' = [op |-> "next", recv |-> gen[1].clip, a |-> <<gen[1].i>>,
                     out |-> r.out, v |-> r.v, log |-> r.log]
          /\ gen' = Some(r.g)
          /\ lastq' = LastQueried(r.h, r.log)
          /\ UNCHANGED <<cur, nops, threads>>

\* ------------------------------------------------------------------ initial clips
\* AudioClip.__init__(make_frame=None, duration, fps=None)
AudioClip_init(duration) ==
    IF duration = None THEN Clip_init
    ELSE [Clip_init EXCEPT !.duration = duration, !.end = duration]

\* A clip whose mask and audio attributes hold clips of their own (the
\* children are objects 2 and 3 of the heap)
Family(d, dm, da) ==
    << SetAttr(SetAttr(AudioClip_init(d), "mask", Some(2)), "audio", Some(3)),
       SetAttr(SetAttr(AudioClip_init(dm), "mask", None), "audio", None),
       AudioClip_init(da) >>

\* A clip with both attributes set and one or both of them None
Childless(d, withMask) ==
    IF withMask
    THEN << SetAttr(SetAttr(AudioClip_init(d), "mask", Some(2)), "audio", None),
            SetAttr(SetAttr(AudioClip_init(d), "mask", None), "audio", None) >>
    ELSE << SetAttr(SetAttr(AudioClip_init(d), "mask", None), "audio", None) >>

OptDurs == {None} \cup {Some(d) : d \in 1..MaxT}

Roots == {<<Clip_init>>} \cup {<<AudioClip_init(d)>> : d \in OptDurs}

Families ==
    {Family(d, dm, da) : d \in OptDurs, dm \in OptDurs, da \in OptDurs}
    \cup {Childless(d, b) : d \in OptDurs, b \in BOOLEAN}

NoCall == [op |-> "init", recv |-> 0, a |-> <<>>, out |-> "ok", v |-> 0, log |-> <<>>]

InitWith(heaps) ==
    /\ heap \in heaps
    /\ cur = 1
    /\ ret = NoCall
    /\ nops = 0
    /\ gen = None
    /\ lastq = [i \in DOMAIN heap |-> None]
    /\ threads = <<>>

\* ------------------------------------------------------------------ Spec
\* A program that builds a clip and applies timing operations in a chain
Init == InitWith(Roots)

Next ==
    \/ nops < MaxOps /\ SetStart(OptTimes)
    \/ nops < MaxOps /\ SetEnd(OptTimes)
    \/ nops < MaxOps /\ SetDuration(OptTimes)
    \/ nops < MaxOps /\ Subclip(SignedTimes, {None} \cup SignedTimes)

Spec == Init /\ [][Next]_vars

\* ------------------------------------------------------------------ SpecCascade
\* The same operations on a clip that has a mask and an audio
InitCascade == InitWith(Families)

NextCascade ==
    \/ nops < MaxCascadeOps /\ SetStart(OptTimes)
    \/ nops < MaxCascadeOps /\ SetEnd(OptTimes)
    \/ nops < MaxCascadeOps /\ SetDuration(OptTimes)
    \/ nops < MaxCascadeOps /\ Subclip(SignedTimes, {None} \cup SignedTimes)

SpecCascade == InitCascade /\ [][NextCascade]_vars

\* ------------------------------------------------------------------ SpecOps
\* A program that chains any of the operations that return a clip, and asks
\* for the frames of a clip with iter_frames, on clips with and without a
\* duration, a mask and an audio.
Src(name) == Some([kind |-> "src", name |-> name])

\* a clip with the frame function name and the duration d
Source(name, d) == [AudioClip_init(d) EXCEPT !.make_frame = Src(name)]

OpsHeaps ==
    {<<Source("A", d)>> : d \in {None, Some(2)}}
    \cup {<< SetAttr(SetAttr(Source("A", d), "mask", Some(2)), "audio", Some(3)),
             SetAttr(Source("M", d), "ismask", TRUE),
             SetAttr(Source("S", d), "fps", Some(2)) >> : d \in {None, Some(2)}}

InitOps == InitWith(OpsHeaps)

OpsTimes == {None, Some(1)}
OpsFuns == {[kind |-> "image", name |-> "invert"]}
OpsApplyTo == {None, <<"mask">>, <<"mask", "audio">>}

NextOps ==
    \/ nops < MaxChainOps /\ SetStart(OpsTimes)
    \/ nops < MaxChainOps /\ SetEnd(OpsTimes)
    \/ nops < MaxChainOps /\ SetDuration(OpsTimes)
    \/ nops < MaxChainOps /\ Subclip({Some(0 - 1), Some(0)}, {None, Some(0 - 1), Some(1)})
    \/ nops < MaxChainOps /\ Cutout({Some(0), Some(1)}, {None, Some(1)})
    \/ nops < MaxChainOps /\ Fl(OpsFuns, OpsApplyTo)
    \/ nops < MaxChainOps /\ FlTime({"twice"}, {None, <<"audio">>})
    \/ nops < MaxChainOps /\ SetMakeFrame({None, Src("B")})
    \/ nops < MaxChainOps /\ SetFps({None, Some(1)})
    \/ nops < MaxChainOps /\ SetIsmask
    \/ nops < MaxChainOps /\ SetMemoize
    \/ nops < MaxChainOps /\ IterFrames({None, Some(1)})

SpecOps == InitOps /\ [][NextOps]_vars

\* ------------------------------------------------------------------ SpecFrame
\* A program that derives clips from a clip, switches memoize on and off, and
\* asks any of the clips for frames.
FrameHeaps == {<<Clip_init>>, <<Source("A", None)>>}

InitFrame == InitWith(FrameHeaps)

FrameTimes == 0..1

NextFrame ==
    \/ nops < MaxFrameOps /\ SetMemoize
    \/ nops < MaxFrameOps /\ SetMakeFrame({Src("B")})
    \/ nops < MaxFrameOps /\ Fl(OpsFuns, {None})
    \/ nops < MaxFrameOps /\ GetFrame(FrameTimes)

SpecFrame == InitFrame /\ [][NextFrame]_vars

\* ------------------------------------------------------------------ SpecCut
\* A program that cuts a part out of a clip of duration CutD, with or without
\* a mask and an audio, and asks the clips for frames.
CutHeaps ==
    { <<Source("A", Some(CutD))>>,
      << SetAttr(SetAttr(Source("A", Some(CutD)), "mask", Some(2)), "audio", Some(3)),
         Source("M", Some(CutD)), Source("S", Some(CutD)) >> }

InitCut == InitWith(CutHeaps)

CutTimes == 0..(CutD - 1)

NextCut ==
    \/ nops < MaxCutOps /\ SetMemoize
    \/ nops < MaxCutOps /\ Cutout({Some(0), Some(1)}, {None, Some(1), Some(2)})
    \/ nops < MaxCutOps /\ GetFrame(CutTimes)

SpecCut == InitCut /\ [][NextCut]_vars

\* ------------------------------------------------------------------ SpecPlaying
\* A program that places a clip on the timeline and asks whether it is
\* playing at a time, or at each time of an array.
PlayHeaps == {<<Clip_init>>, <<AudioClip_init(Some(1))>>}

InitPlaying == InitWith(PlayHeaps)

PlayTimes ==
    {Scalar(t) : t \in 0..MaxPlayT}
    \cup {Array(<<t1, t2>>) : t1 \in 0..MaxPlayT, t2 \in 0..MaxPlayT}

NextPlaying ==
    \/ nops < MaxPlayOps /\ SetStart({Some(1)})
    \/ nops < MaxPlayOps /\ SetEnd({Some(2)})
    \/ nops < MaxPlayOps /\ IsPlaying(PlayTimes)

SpecPlaying == InitPlaying /\ [][NextPlaying]_vars

\* ------------------------------------------------------------------ SpecIter
\* A program that gives a clip a frame rate or not, asks for its frames with
\* iter_frames and consumes the generator.  The durations are 2 and 2.5
\* seconds.
IterHeaps == {<<Source("A", Some(d))>> : d \in {2 * TicksPerSecond, 2 * TicksPerSecond + 1}}

InitIter == InitWith(IterHeaps)

IterRates == {None} \cup {Some(f) : f \in 1..MaxFps}

NextIter ==
    \/ nops < MaxIterOps /\ SetFps(IterRates)
    \/ nops < MaxIterOps /\ IterFrames(IterRates)
    \/ IterNext

SpecIter == InitIter /\ [][NextIter]_vars

\* ------------------------------------------------------------------ SpecFloat
\* A program that times a clip with numbers whose sums and differences are
\* rounded: 1 and the float two units above 2^MantissaBits.
FloatTimes == {None, Some(1), Some(2^MantissaBits + 2)}

InitFloat == InitWith(Roots)

NextFloat ==
    \/ nops < MaxFloatOps /\ SetStart(FloatTimes)
    \/ nops < MaxFloatOps /\ SetEnd(FloatTimes)
    \/ nops < MaxFloatOps /\ SetDuration(FloatTimes)

SpecFloat == InitFloat /\ [][NextFloat]_vars

\* ------------------------------------------------------------------ SpecFl
\* A program that transforms the frames or the timeline of a clip, with or
\* without a mask and an audio, switches memoize on and off, and asks the
\* clips for frames.
FlHeaps ==
    { <<Source("A", Some(2))>>,
      << SetAttr(SetAttr(Source("A", Some(2)), "mask", Some(2)), "audio", Some(3)),
         Source("M", Some(2)), Source("S", Some(2)) >> }

InitFl == InitWith(FlHeaps)

NextFl ==
    \/ nops < MaxFlOps /\ SetMemoize
    \/ nops < MaxFlOps /\ Fl(OpsFuns, OpsApplyTo)
    \/ nops < MaxFlOps /\ FlTime({"twice"}, {None, <<"audio">>})
    \/ nops < MaxFlOps /\ GetFrame(FrameTimes)

SpecFl == InitFl /\ [][NextFl]_vars

\* ------------------------------------------------------------------ SpecClose
\* A program that closes clips, their masks and their audios in any order,
\* derives clips from them and asks them for frames.  The third heap is a
\* clip whose audio has an audio of its own.
CloseHeaps ==
    { <<Source("A", None)>>,
      << SetAttr(SetAttr(Source("A", None), "mask", Some(2)), "audio", Some(3)),
         SetAttr(SetAttr(Source("M", None), "mask", None), "audio", None),
         Source("S", None) >>,
      << SetAttr(Source("A", None), "audio", Some(2)),
         SetAttr(Source("S", None), "audio", Some(3)),
         Source("T", None) >> }

InitClose == InitWith(CloseHeaps)

NextClose ==
    \/ nops < MaxCloseOps /\ Close
    \/ nops < MaxCloseOps /\ SetMemoize
    \/ nops < MaxCloseOps /\ GetFrame({0})

SpecClose == InitClose /\ [][NextClose]_vars

\* ------------------------------------------------------------------ SpecCvsecs
\* A program that hands a value to cvsecs, and then what cvsecs returned.
SeqsUpTo(S, n) == UNION {[1..k -> S] : k \in 0..n}

CvChars == {"1", "5", ":", ",", "."}
CvNumbers == {PyFloat(<<1, 1>>), PyFloat(<<2, 1>>), PyFloat(<<43, 2>>)}

\* the strings of the docstring of cvsecs that are longer than MaxStrLen, and
\* a string of four components
CvExamples ==
    { <<"1", ":", "3", "3", ",", "5">>,
      <<"0", "1", ":", "0", "1", ":", "3", "3", ".", "0", "4", "5">>,
      <<"0", "1", ":", "0", "1", ":", "3", "3", ",", "5">>,
      <<"1", ":", "1", ":", "1", ":", "1", ",", "5">> }

CvInputs ==
    {PyNone, PyDict}
    \cup CvNumbers
    \cup {PyTuple(items) : items \in SeqsUpTo(CvNumbers \cup {PyNone}, MaxTupleLen)}
    \cup {PyStr(chars) : chars \in SeqsUpTo(CvChars, MaxStrLen) \cup CvExamples}

Cvsecs(X) ==
    \E x \in X :
        LET r == cvsecs(x)
        IN /\ ret' = [op |-> "cvsecs", recv |-> 0, a |-> <<x>>, out |-> r.out, v |-> r.v,
                      log |-> <<>>]
           /\ nops' = nops + 1
           /\ UNCHANGED <<heap, cur, gen, lastq, threads>>

InitCvsecs ==
    /\ heap = <<>>
    /\ cur = 0
    /\ ret = NoCall
    /\ nops = 0
    /\ gen = None
    /\ lastq = <<>>
    /\ threads = <<>>

NextCvsecs ==
    \/ nops = 0 /\ Cvsecs(CvInputs)
    \/ nops \in 1..(MaxCvOps - 1) /\ ret.out = "ok" /\ Cvsecs({ret.v})

SpecCvsecs == InitCvsecs /\ [][NextCvsecs]_vars

\* ------------------------------------------------------------------ SpecArray
\* A program that builds an AudioArrayClip from a table of samples and asks
\* its frame at a time, or at each time of an array.
MonoTable(n) == [i \in 1..n |-> <<i>>]
StereoTable(n) == [i \in 1..n |-> <<2 * i, 2 * i + 1>>]
Tables == {MonoTable(n) : n \in 0..MaxRows} \cup {StereoTable(n) : n \in 0..MaxRows}
AudioFps == {1, TicksPerSecond}

AudioTicks == (0 - MaxAudioT)..MaxAudioT
AudioTimes == {Scalar(t) : t \in AudioTicks}
              \cup {Array(<<t1, t2>>) : t1 \in AudioTicks, t2 \in AudioTicks}

NewAudioArrayClip(T, F) ==
    \E array \in T, fps \in F :
        Call("AudioArrayClip", 0, <<array, fps>>, AudioArrayClip_init(heap, array, fps))

\* clip.get_frame(t) on the clip the program holds
AudioGetFrame(T) ==
    \E t \in T :
        LET r == AudioClip_get_frame(heap, <<>>, cur, t)
        IN Query("get_frame", cur, <<t>>, r, r.log)

InitArray ==
    /\ heap = <<>>
    /\ cur = 0
    /\ ret = NoCall
    /\ nops = 0
    /\ gen = None
    /\ lastq = <<>>
    /\ threads = <<>>

NextArray ==
    \/ nops = 0 /\ NewAudioArrayClip(Tables, AudioFps)
    \/ nops \in 1..(MaxArrayOps - 1) /\ cur # 0 /\ AudioGetFrame(AudioTimes)

SpecArray == InitArray /\ [][NextArray]_vars
\* ------------------------------------------------------------------ SpecCompose
\* A program that holds two audio clips, places and trims them on the
\* timeline, and composes clips it has made.
ArrayHeap(h, clip) == AudioArrayClip_init(h, clip[1], clip[2]).h

FirstClips == {<<MonoTable(2), TicksPerSecond>>, <<MonoTable(5), 1>>}
SecondClips == {<<MonoTable(2), TicksPerSecond>>, <<StereoTable(2), TicksPerSecond>>,
                <<StereoTable(3), 1>>}

\* two array clips, or an array clip and an AudioClip without make_frame
CompHeaps ==
    {ArrayHeap(ArrayHeap(<<>>, a), b) : a \in FirstClips, b \in SecondClips}
    \cup {Append(ArrayHeap(<<>>, a), AudioClip_init(Some(2))) : a \in FirstClips}

InitCompose == InitWith(CompHeaps)

\* the lists of at most MaxCompLen distinct clips
ClipLists(h) ==
    {s \in SeqsUpTo(DOMAIN h, MaxCompLen) : \A i, j \in DOMAIN s : s[i] = s[j] => i = j}

\* c.set_start(t) on any clip made so far
Place(T) ==
    \E c \in DOMAIN heap, t \in T :
        Call("set_start", c, <<t, TRUE>>, set_start(heap, c, <<t, TRUE>>))

\* c.set_end(t) on any clip made so far
Trim(T) ==
    \E c \in DOMAIN heap, t \in T :
        Call("set_end", c, <<t>>, set_end(heap, c, <<t>>))

Compose ==
    \E clips \in ClipLists(heap) :
        Call("CompositeAudioClip", 0, <<clips>>, CompositeAudioClip_init(heap, clips))

Composing ==
    \/ nops < MaxCompOps - 1 /\ Place({Some(0), Some(TicksPerSecond)})
    \/ nops < MaxCompOps - 1 /\ Trim({Some(1)})
    \/ nops < MaxCompOps /\ ret.op # "CompositeAudioClip" /\ Compose

NextCompose == Composing

SpecCompose == InitCompose /\ [][NextCompose]_vars

\* ------------------------------------------------------------------ SpecComposite
\* The same program, which then asks the frame of the composite at a time,
\* or at each time of an array.
CompTicks == (0 - 1)..MaxAudioT
CompTimes == {Scalar(t) : t \in CompTicks}
             \cup {Array(p) : p \in {q \in CompTicks \X CompTicks : q[1] <= q[2]}}

InitComposite == InitWith(CompHeaps)

NextComposite ==
    \/ Composing
    \/ /\ ret.op = "CompositeAudioClip"
       /\ ret.out = "ok"
       /\ AudioGetFrame(CompTimes)

SpecComposite == InitComposite /\ [][NextComposite]_vars
\* ------------------------------------------------------------------ SpecSub
\* A program that remaps the time of a clip, with or without a mask and an audio,
\* switches memoize on and off, asks the clips for frames and takes
\* subclips.
InitSub == InitWith(FlHeaps)

NextSub ==
    \/ nops < MaxSubOps /\ SetMemoize
    \/ nops < MaxSubOps /\ FlTime({"twice"}, {None})
    \/ nops < MaxSubOps /\ GetFrame(FrameTimes)
    \/ nops < MaxSubOps /\ Subclip({Some(0), Some(1)}, {None, Some(2)})

SpecSub == InitSub /\ [][NextSub]_vars
\* ------------------------------------------------------------------ SpecProc
\* A program that runs external commands, which start or not, exit with any
\* return code and write anything to stderr.
Commands == {"ffmpeg -i a.mp4 b.mp4", "ffmpeg -version"}
ErrTexts == {"", "a.mp4: No such file or directory\n", "Moviepy Error: failed command:\n"}
ExternalTools ==
    {[launch |-> l, returncode |-> rc, err |-> e] :
        l \in BOOLEAN, rc \in 0..MaxReturnCode, e \in ErrTexts}

SubprocessCall ==
    \E cmd \in Commands, errorprint \in BOOLEAN, tool \in ExternalTools :
        LET r == subprocess_call(cmd, errorprint, tool)
        IN /\ ret' = [op |-> "subprocess_call", recv |-> 0, a |-> <<cmd, errorprint, tool>>,
                      out |-> r.out, v |-> r, log |-> <<>>]
           /\ nops' = nops + 1
           /\ UNCHANGED <<heap, cur, gen, lastq, threads>>

InitProc ==
    /\ heap = <<>>
    /\ cur = 0
    /\ ret = NoCall
    /\ nops = 0
    /\ gen = None
    /\ lastq = <<>>
    /\ threads = <<>>

NextProc == nops < MaxProcOps /\ SubprocessCall

SpecProc == InitProc /\ [][NextProc]_vars
\* ------------------------------------------------------------------ SpecThreads
\* A program that builds a clip, starts threads on it, or on a copy of it
\* for each thread, and the threads calling get_frame, in any interleaving.
ThreadHeaps == {<<Source("A", None)>>}
ThreadTimes == 0..1
ThreadFuns == {[kind |-> "image", name |-> "invert"]}
Threads == 1..MaxThreads

RECURSIVE CopyEach(_, _, _)
\* n calls of c.copy(): the heap and the copies
CopyEach(h, c, n) ==
    IF n = 0 THEN [h |-> h, clips |-> <<>>]
    ELSE LET r == CopyEach(h, c, n - 1)
             k == Clip_copy(r.h, c)
         IN [h |-> k.h, clips |-> Append(r.clips, k.v)]

Started == threads # <<>>

\* Thread(target = clip.get_frame ...).start(), once for each thread
Start ==
    /\ ~Started
    /\ \E shared \in BOOLEAN :
          LET r == CopyEach(heap, cur, MaxThreads)
          IN /\ heap' = IF shared THEN heap ELSE r.h
             /\ threads' = [i \in Threads |->
                              [clip |-> IF shared THEN cur ELSE r.clips[i],
                               stack |-> <<>>, last |-> None]]
             /\ lastq' = [i \in DOMAIN heap' |-> None]
    /\ UNCHANGED <<cur, ret, nops, gen>>

\* a thread calls clip.get_frame(t)
ThreadBegin(i) ==
    /\ Started
    /\ threads[i].stack = <<>>
    /\ nops < MaxThreadOps
    /\ \E t \in ThreadTimes :
          threads' = [threads EXCEPT
                        ![i].stack = <<NewFrame(threads[i].clip, Seconds(Some(t))[1])>>]
    /\ nops' = nops + 1
    /\ UNCHANGED <<heap, cur, ret, gen, lastq>>

\* a thread makes the step pc of the get_frame it is in
ThreadStep(i, pc) ==
    /\ Started
    /\ threads[i].stack # <<>>
    /\ Top(threads[i].stack).pc = pc
    /\ LET r == get_frame_step(heap, threads[i].stack)
       IN /\ heap' = r.h
          /\ threads' = [threads EXCEPT ![i].stack = r.stack,
                                        ![i].last = IF r.last = None THEN @ ELSE r.last]
    /\ UNCHANGED <<cur, ret, nops, gen, lastq>>

InitThreads == InitWith(ThreadHeaps)

NextThreads ==
    \/ ~Started /\ nops < MaxThreadOps - 2 /\ SetMemoize
    \/ ~Started /\ nops < MaxThreadOps - 2 /\ Fl(ThreadFuns, {None})
    \/ ~Started /\ nops < MaxThreadOps - 2 /\ GetFrame(ThreadTimes)
    \/ Start
    \/ \E i \in Threads : ThreadBegin(i)
    \/ \E i \in Threads : ThreadStep(i, "check")
    \/ \E i \in Threads : ThreadStep(i, "read")
    \/ \E i \in Threads : ThreadStep(i, "make")
    \/ \E i \in Threads : ThreadStep(i, "write_t")
    \/ \E i \in Threads : ThreadStep(i, "write_frame")

SpecThreads == InitThreads /\ [][NextThreads]_vars
\* ------------------------------------------------------------------ claims
Triple(o) == <<o.start, o.end, o.duration>>
Returned == ret.out = "ok" /\ ret.op # "init"

\* end defined => duration defined and duration = end - start
TimingConsistent(o) ==
    o.end # None =>
        /\ o.duration # None
        /\ o.start # None
        /\ o.duration[1] = o.end[1] - o.start[1]

\* C1 as stated: in every clip reached by set_start, set_end, set_duration and
\* subclip calls, whenever end is defined, duration is defined and
\* duration = end - start.
C1_EndImpliesDuration == \A i \in DOMAIN heap : TimingConsistent(heap[i])

EndAndDurationAgree(o) ==
    (o.end # None /\ o.duration # None) =>
        (o.start # None /\ o.duration[1] = o.end[1] - o.start[1])

PassesNoStart(r) == r.op = "set_start" /\ r.a[1] = None

\* C1 as amended: in every clip reached, whenever end and duration are both
\* defined, start is defined and duration = end - start; and every call that
\* returns normally, other than a set_start given None, on a clip whose start
\* is defined and whose end, if defined, comes with duration = end - start,
\* returns a clip of which the same is true.
C1_TimingInvariant ==
    /\ [](\A i \in DOMAIN heap : EndAndDurationAgree(heap[i]))
    /\ [][(/\ ret'.out = "ok"
           /\ ~PassesNoStart(ret')
           /\ heap[ret'.recv].start # None
           /\ TimingConsistent(heap[ret'.recv]))
          => (/\ heap'[ret'.v].start # None
              /\ TimingConsistent(heap'[ret'.v]))]_vars

\* C1 witness: a clip reached by two calls whose end was set after its start
\* was moved, with the duration recomputed from both
C1_Witness ==
    /\ nops = 2
    /\ Returned
    /\ ret.op = "set_end"
    /\ heap[ret.v].start = Some(1)
    /\ heap[ret.v].end = Some(2)
    /\ heap[ret.v].duration = Some(1)

\* The decorated operation named op
TimingCall(op, h, c, a) ==
    CASE op = "set_start" -> set_start(h, c, a)
      [] op = "set_end" -> set_end(h, c, a)
      [] op = "set_duration" -> set_duration(h, c, a)
      [] op = "subclip" -> subclip(h, c, a)

IsMutator(op) == op \in {"set_start", "set_end", "set_duration"}

\* the child of the result is timed as the operation times the receiver's child
CascadesTo(child) ==
    LET recv == heap[ret.recv]
        res == heap[ret.v]
    IN /\ HasAttr(recv, child) <=> HasAttr(res, child)
       /\ HasAttr(recv, child) =>
            IF recv[child] = None THEN res[child] = None
            ELSE LET alone == TimingCall(ret.op, heap, recv[child][1], ret.a)
                 IN /\ res[child] # None
                    /\ res[child][1] # recv[child][1]
                    /\ alone.out = "ok"
                    /\ Triple(heap[res[child][1]]) = Triple(alone.h[alone.v])
                    /\ (Triple(heap[recv[child][1]]) = Triple(recv)
                          => Triple(heap[res[child][1]]) = Triple(res))

\* C3: set_start, set_end and set_duration give the mask and the audio of the
\* returned clip the start, end and duration that the same call gives the
\* receiver's mask and audio; a child timed like the receiver stays timed like
\* the result; a null child stays null.
C3_Cascade ==
    (Returned /\ IsMutator(ret.op)) => (CascadesTo("mask") /\ CascadesTo("audio"))

\* C3 witness: set_duration on a clip whose mask and audio both had another
\* duration than the clip
C3_Witness ==
    /\ Returned
    /\ ret.op = "set_duration"
    /\ ret.a = <<Some(2), TRUE>>
    /\ GetAttr(heap[ret.recv], "mask") # None
    /\ GetAttr(heap[ret.recv], "audio") # None
    /\ heap[ret.recv].duration = None
    /\ heap[heap[ret.recv].mask[1]].duration = Some(1)
    /\ heap[heap[ret.recv].audio[1]].duration = Some(1)
    /\ heap[heap[ret.v].mask[1]].end = Some(2)
    /\ heap[heap[ret.v].audio[1]].end = Some(2)

\* a negative time counts from the end of a clip of duration d
FromEnd(t, d) == IF t < 0 THEN d + t ELSE t

SubclipOnDuration == Returned /\ ret.op = "subclip" /\ heap[ret.recv].duration # None

\* start a', end b', duration b' - a'; and duration b - a for 0 <= a < b <= D
SubclipTimes ==
    LET D == heap[ret.recv].duration[1]
        a == ret.a[1][1]
        a1 == FromEnd(a, D)
        b1 == IF ret.a[2] = None THEN D ELSE FromEnd(ret.a[2][1], D)
        res == heap[ret.v]
    IN /\ Triple(res) = <<Some(a1), Some(b1), Some(b1 - a1)>>
       /\ (ret.a[2] # None /\ 0 <= a /\ a < ret.a[2][1] /\ ret.a[2][1] <= D)
            => res.duration = Some(ret.a[2][1] - a)

\* the call returned what subclip(t_start, D + t_end) returns on the receiver
SameAsCountedFromEnd ==
    LET D == heap[ret.recv].duration[1]
        same == subclip(heap, ret.recv, <<ret.a[1], Some(D + ret.a[2][1])>>)
    IN same.out = "ok" /\ Triple(same.h[same.v]) = Triple(heap[ret.v])

\* C4 as stated: subclip(a, b) on a clip of duration D returns start a', end b'
\* and duration b' - a', a negative bound being counted from D and an omitted
\* b being D; the duration is b - a for 0 <= a < b <= D; and subclip(0, -2)
\* returns the start, end and duration of subclip(0, D - 2).
C4_SubclipAnyDuration ==
    SubclipOnDuration =>
        /\ SubclipTimes
        /\ ret.a = <<Some(0), Some(0 - 2)>> => SameAsCountedFromEnd

\* C4 as amended: the same, subclip(a, -k) returning what subclip(a, D - k)
\* returns when k <= D (for subclip(0, -2): on a clip of duration D >= 2).
C4_Subclip ==
    SubclipOnDuration =>
        /\ SubclipTimes
        /\ (ret.a[2] # None /\ ret.a[2][1] < 0
              /\ heap[ret.recv].duration[1] + ret.a[2][1] >= 0) => SameAsCountedFromEnd

\* C4 witness: subclip(0, -2) on a clip whose duration was set to 2 after its
\* start was moved to 1
C4_Witness ==
    /\ Returned
    /\ ret.op = "subclip"
    /\ ret.a = <<Some(0), Some(0 - 2)>>
    /\ heap[ret.recv].duration = Some(2)
    /\ heap[ret.recv].start = Some(1)
    /\ Triple(heap[ret.v]) = <<Some(0), Some(0), Some(0)>>

\* ------------------------------------------------------------------ C2, C9
CopyOps ==
    {"set_start", "set_end", "set_duration", "set_make_frame", "set_fps", "set_ismask",
     "set_memoize", "subclip", "cutout", "fl", "fl_time"}

\* what C2 says of the receiver, and of its mask and audio
OwnState(o) ==
    <<o.start, o.end, o.duration, o.make_frame, HasAttr(o, "fps"), GetAttr(o, "fps"),
      o.memoize, HasAttr(o, "mask"), GetAttr(o, "mask"), HasAttr(o, "audio"),
      GetAttr(o, "audio")>>
Timeline(o) == <<o.start, o.end, o.duration, o.make_frame>>
Children(o) == {GetAttr(o, ch)[1] : ch \in {ch \in {"mask", "audio"} : GetAttr(o, ch) # None}}

\* C2: each of set_start, set_end, set_duration, set_make_frame, set_fps,
\* set_ismask, set_memoize, subclip, cutout, fl and fl_time leaves the
\* receiver's start, end, duration, frame function, fps and memoize flag as
\* they were, the receiver still refers to the same mask and audio, whose
\* start, end, duration and frame function are as they were, and the clip
\* returned is another object.
C2_CopyBeforeMutate ==
    [][(ret'.op \in CopyOps /\ nops' = nops + 1) =>
        /\ OwnState(heap'[ret'.recv]) = OwnState(heap[ret'.recv])
        /\ \A ch \in Children(heap[ret'.recv]) : Timeline(heap'[ch]) = Timeline(heap[ch])
        /\ ret'.out = "ok" => (ret'.v # ret'.recv /\ ret'.v \notin DOMAIN heap)]_vars

\* C2 witness: fl with keep_duration=False applied to the mask and the audio
\* too, on a clip that an earlier call returned with duration 1
C2_Witness ==
    /\ Returned
    /\ nops = 2
    /\ ret.op = "fl"
    /\ ret.a[2] = <<"mask", "audio">>
    /\ ~ret.a[3]
    /\ heap[ret.recv].duration = Some(1)
    /\ Children(heap[ret.recv]) # {}
    /\ heap[ret.v].duration = None
    /\ \A ch \in Children(heap[ret.v]) : heap[ch].duration = None

\* the calls whose precondition fails
NoDuration(r) == r.op = "iter_frames" /\ heap[r.recv].duration = None
NegativeOnNoDuration(r) ==
    /\ r.op = "subclip"
    /\ heap[r.recv].duration = None
    /\ r.a[1] # None
    /\ (r.a[1][1] < 0 \/ (r.a[2] # None /\ r.a[2][1] < 0))
NoEnd(r) == r.op = "set_duration" /\ ~r.a[2] /\ heap[r.recv].end = None

\* C9: iter_frames on a clip with no duration, subclip with a negative time on
\* a clip with no duration and set_duration(t, change_end=False) on a clip with
\* no end raise at the call (iter_frames: no generator is made and no frame is
\* asked for), and leave the start, end, duration and frame function of every
\* clip made so far as they were.
C9_FailFast ==
    [][(nops' = nops + 1 /\ (NoDuration(ret') \/ NegativeOnNoDuration(ret') \/ NoEnd(ret'))) =>
        /\ ret'.out = "ValueError"
        /\ ret'.log = <<>>
        /\ gen' = gen
        /\ DOMAIN heap' = DOMAIN heap
        /\ \A i \in DOMAIN heap : Timeline(heap'[i]) = Timeline(heap[i])]_vars

\* C9 witness: set_duration(1, change_end=False) raised on a clip with a mask
\* and an audio that fl_time had returned without a duration
C9_Witness ==
    /\ nops = 2
    /\ ret.op = "set_duration"
    /\ ret.a = <<Some(1), FALSE>>
    /\ ret.out = "ValueError"
    /\ heap[ret.recv].make_frame # None
    /\ heap[ret.recv].make_frame[1].kind = "fl"
    /\ heap[ret.recv].end = None
    /\ Children(heap[ret.recv]) # {}

\* ------------------------------------------------------------------ C10
\* the calls of the frame function of clip c made by the last get_frame
MakeFrameCalls(log, c) == {j \in DOMAIN log : log[j].call = "make_frame" /\ log[j].clip = c}

\* the last get_frame called the frame function of c once, at t, and returned
\* the frame it made
ComputedOnce(r, c, t) ==
    /\ Cardinality(MakeFrameCalls(r.log, c)) = 1
    /\ \A j \in MakeFrameCalls(r.log, c) : r.log[j].t = t
    /\ r.v # None

\* the single cache slot of a clip
Slot(o) == <<o.memoized_t, HasAttr(o, "memoized_frame"), GetAttr(o, "memoized_frame")>>

\* C10: get_frame raises on a clip with no frame function.  With memoize off
\* it returns make_frame(t) and leaves the cache slot as it was.  With memoize
\* on, a query at the time of the query made just before on the same clip
\* returns the cached frame and does not call make_frame; any other query
\* calls make_frame(t) once, stores (t, frame) in the slot and returns that
\* frame.
C10_GetFrame ==
    [][(ret'.op = "get_frame" /\ nops' = nops + 1) =>
        LET c == ret'.recv
            t == ret'.a[1]
            o == heap[c]
        IN /\ o.make_frame = None => ret'.out = "ValueError"
           /\ (ret'.out = "ok" /\ ~o.memoize) =>
                 ComputedOnce(ret', c, t) /\ Slot(heap'[c]) = Slot(o)
           /\ (ret'.out = "ok" /\ o.memoize /\ lastq[c] = Some(t)) =>
                 /\ MakeFrameCalls(ret'.log, c) = {}
                 /\ ret'.v = GetAttr(o, "memoized_frame")
                 /\ Slot(heap'[c]) = Slot(o)
           /\ (ret'.out = "ok" /\ o.memoize /\ lastq[c] # Some(t)) =>
                 /\ ComputedOnce(ret', c, t)
                 /\ Slot(heap'[c]) = <<Some(t), TRUE, ret'.v>>]_<<nops, gen>>

\* ------------------------------------------------------------------ C5
\* what a frame shows: its source, the time it was made for and the
\* transformations applied to it
Content(frame) == [src |-> frame.src, t |-> frame.t, fx |-> frame.fx]

\* the frame function of clip c evaluated at t
FrameAt(h, c, t) == make_frame(h, <<>>, c, t)

\* the clip is one that cutout(ta, tb) returned, ta <= tb, for a source of
\* defined duration
IsCut(o) ==
    /\ o.make_frame # None
    /\ o.make_frame[1].kind = "cutout"
    /\ o.make_frame[1].ta # None
    /\ o.make_frame[1].tb # None
    /\ o.make_frame[1].ta[1] <= o.make_frame[1].tb[1]
    /\ heap[o.make_frame[1].self].duration # None

\* the time of the source that cutout(ta, tb) shows at t
Spliced(mf, t) == IF t < mf.ta[1] THEN t ELSE t + (mf.tb[1] - mf.ta[1])

\* C5: cutout(ta, tb), ta <= tb, on a clip of duration D returns a clip of
\* duration D - (tb - ta), the mask and the audio of which are the cutout of
\* the source's; the frame of the returned clip at t is the frame of the
\* source at t when t < ta and at t + (tb - ta) when t >= ta.
C5_Cutout ==
    [][/\ (ret'.op = "cutout" /\ ret'.out = "ok" /\ IsCut(heap'[ret'.v])) =>
            LET src == heap[ret'.recv]
                new == heap'[ret'.v]
                mf == new.make_frame[1]
            IN /\ new.duration = Some(src.duration[1] - (mf.tb[1] - mf.ta[1]))
               /\ \A ch \in {"mask", "audio"} :
                     IF GetAttr(src, ch) = None THEN GetAttr(new, ch) = None
                     ELSE /\ GetAttr(new, ch) # None
                          /\ heap'[new[ch][1]].make_frame =
                                Some([kind |-> "cutout", self |-> src[ch][1], ta |-> mf.ta,
                                      tb |-> IF ret'.a[2] = None
                                             THEN heap[src[ch][1]].duration ELSE mf.tb])
       /\ (ret'.op = "get_frame" /\ nops' = nops + 1 /\ IsCut(heap[ret'.recv])) =>
            LET mf == heap[ret'.recv].make_frame[1]
                want == FrameAt(heap, mf.self, Spliced(mf, ret'.a[1]))
            IN /\ ret'.out = want.out
               /\ ret'.out = "ok" => Content(ret'.v[1]) = Content(want.v[1])]_<<nops, gen>>

\* ------------------------------------------------------------------ C6
\* the rule for one time
ScalarRule(o, t) == o.start[1] <= t /\ (o.end = None \/ t <= o.end[1])

\* C6: is_playing(t) for a number t is true iff start <= t and (end is None or
\* t <= end).  For an array of times, False is returned only when no time of
\* the array satisfies that rule; otherwise the result is an array, the i-th
\* entry of which is the rule applied to the i-th time.
C6_IsPlaying ==
    (ret.op = "is_playing" /\ ret.out = "ok") =>
        LET o == heap[ret.recv]
            t == ret.a[1]
            res == ret.v
        IN IF ~t.array THEN res = Scalar(ScalarRule(o, t.v[1]))
           ELSE /\ ~res.array => (~res.v[1] /\ \A i \in DOMAIN t.v : ~ScalarRule(o, t.v[i]))
                /\ res.array => res.v = [i \in DOMAIN t.v |-> ScalarRule(o, t.v[i])]
                /\ (\E i \in DOMAIN t.v : ScalarRule(o, t.v[i])) => res.array

\* ------------------------------------------------------------------ C7, C8
\* k / fps seconds, in ticks
SampleTime(k, fps) == Rat(k * TicksPerSecond, fps)

\* floor(D * fps) for D in ticks
FrameCount(D, fps) == (D * fps) \div TicksPerSecond

\* the step is next(g) on a generator that iter_frames(fps) returned
NextOf(g, r) == r.op = "next" /\ g # None /\ g[1].fps # None

\* C7: the generator of iter_frames(fps) on a clip of duration D yields
\* floor(D * fps) frames and then stops; the k-th is get_frame(k / fps), the
\* time k / fps is less than D, and with with_times=True the item is the pair
\* (k / fps, frame).
C7_IterFrames ==
    [][NextOf(gen, ret') =>
        LET g == gen[1]
            k == g.i
            fps == g.fps[1]
            D == heap[g.clip].duration[1]
            t == SampleTime(k, fps)
        IN IF k < FrameCount(D, fps)
           THEN /\ ret'.out = "ok"
                /\ ret'.log # <<>>
                /\ ret'.log[1] = [call |-> "get_frame", clip |-> g.clip, t |-> t]
                /\ ret'.v.frame # None
                /\ ret'.v.frame[1].t = t
                /\ k * TicksPerSecond < D * fps
                /\ IF g.with_times THEN ret'.v = [t |-> t, frame |-> ret'.v.frame]
                   ELSE ret'.v = [frame |-> ret'.v.frame]
           ELSE ret'.out = "StopIteration"]_<<nops, gen>>

\* the clip has a frame rate of its own
OwnFps(o) == HasAttr(o, "fps") /\ o.fps # None

\* C8: iter_frames without fps on a clip that has a frame rate returns a
\* generator that samples at the clip's rate; iter_frames(fps) returns one that
\* samples at fps, whatever the clip's own rate; iter_frames without fps on a
\* clip with no frame rate raises, or returns a generator the first next of
\* which raises, and no frame is made.
C8_FpsDefault ==
    [][/\ (ret'.op = "iter_frames" /\ nops' = nops + 1) =>
            LET o == heap[ret'.recv]
                fps == ret'.a[1]
            IN /\ (fps = None /\ OwnFps(o)) =>
                     /\ ret'.out = "ok"
                     /\ gen'[1].fps \in {None, o.fps}
               /\ fps # None => (ret'.out = "ok" /\ gen'[1].fps = fps)
               /\ (fps = None /\ ~OwnFps(o)) => ret'.log = <<>>
       /\ (ret'.op = "next" /\ gen # None /\ gen[1].pc = "start") =>
            LET g == gen[1]
                o == heap[g.clip]
            IN IF g.fps = None /\ ~OwnFps(o)
               THEN ret'.out \notin {"ok", "StopIteration"} /\ ret'.log = <<>>
               ELSE gen'[1].pc = "loop" =>
                       gen'[1].fps = (IF g.fps = None THEN o.fps ELSE g.fps)]_<<nops, gen>>

\* ------------------------------------------------------------------ C12
\* the receiver before the call, the clip returned, the arguments
Pre == heap[ret'.recv]
Res == heap'[ret'.v]
CalledOk(op) == ret'.op = op /\ ret'.out = "ok"

\* C12: set_start(t, change_end=True) returns a clip with start = t, the
\* duration unchanged and, the duration being defined, end = t + duration;
\* set_start(t, change_end=False) returns a clip with start = t, the end
\* unchanged and, the end being defined, duration = end - t; given a number
\* the call returns.
C12_SetStartPolicy ==
    [][/\ (ret'.op = "set_start" /\ ret'.a[1] # None) => ret'.out = "ok"
       /\ (CalledOk("set_start") /\ ret'.a[2]) =>
             /\ Res.start = ret'.a[1]
             /\ Res.duration = Pre.duration
             /\ Pre.duration # None =>
                   /\ ret'.a[1] # None
                   /\ Res.end = Some(fadd(ret'.a[1][1], Pre.duration[1]))
       /\ (CalledOk("set_start") /\ ~ret'.a[2]) =>
             /\ Res.start = ret'.a[1]
             /\ Res.end = Pre.end
             /\ Pre.end # None =>
                   /\ ret'.a[1] # None
                   /\ Res.duration = Some(fsub(Pre.end[1], ret'.a[1][1]))]_nops

\* C12 witness: set_start(1, change_end=False) returned on a clip whose end
\* was far from its start, the duration now being the rounded end - 1
C12_Witness ==
    /\ Returned
    /\ ret.op = "set_start"
    /\ ret.a = <<Some(1), FALSE>>
    /\ heap[ret.recv].end = Some(2^MantissaBits + 2)
    /\ heap[ret.recv].duration # Some(2^MantissaBits)
    /\ heap[ret.v].start = Some(1)
    /\ heap[ret.v].end = Some(2^MantissaBits + 2)
    /\ heap[ret.v].duration = Some(2^MantissaBits)

\* ------------------------------------------------------------------ C13
\* C13: set_duration(t, change_end=True) returns a clip with duration = t, the
\* start unchanged and end = start + t, the end being undefined when t is
\* None; set_duration(t, change_end=False) on a clip whose end is defined
\* returns a clip with duration = t, the end unchanged and start = end - t; on
\* a clip whose end is undefined it raises ValueError.  Given a number, the
\* call on a clip with a start (an end, for change_end=False) returns.
C13_SetDurationPolicy ==
    [][/\ (ret'.op = "set_duration" /\ ret'.a[2]
              /\ (ret'.a[1] = None \/ Pre.start # None)) => ret'.out = "ok"
       /\ (ret'.op = "set_duration" /\ ~ret'.a[2]
              /\ ret'.a[1] # None /\ Pre.end # None) => ret'.out = "ok"
       /\ (ret'.op = "set_duration" /\ ~ret'.a[2] /\ Pre.end = None) =>
             ret'.out = "ValueError"
       /\ (CalledOk("set_duration") /\ ret'.a[2]) =>
             /\ Res.duration = ret'.a[1]
             /\ Res.start = Pre.start
             /\ IF ret'.a[1] = None THEN Res.end = None
                ELSE /\ Pre.start # None
                     /\ Res.end = Some(fadd(Pre.start[1], ret'.a[1][1]))
       /\ (CalledOk("set_duration") /\ ~ret'.a[2]) =>
             /\ Pre.end # None
             /\ ret'.a[1] # None
             /\ Res.duration = ret'.a[1]
             /\ Res.end = Pre.end
             /\ Res.start = Some(fsub(Pre.end[1], ret'.a[1][1]))]_nops

\* C13 witness: set_duration(1, change_end=False) returned on a clip that
\* ended far from its start, the start now being the rounded end - 1
C13_Witness ==
    /\ Returned
    /\ ret.op = "set_duration"
    /\ ret.a = <<Some(1), FALSE>>
    /\ heap[ret.recv].start = Some(0)
    /\ heap[ret.recv].end = Some(2^MantissaBits + 2)
    /\ heap[ret.v].duration = Some(1)
    /\ heap[ret.v].end = Some(2^MantissaBits + 2)
    /\ heap[ret.v].start = Some(2^MantissaBits)

\* ------------------------------------------------------------------ C14
\* the clip that op(a) returns on the receiver of the last call
Other(op, a) ==
    LET r == TimingCall(op, heap, ret.recv, a)
    IN IF r.out = "ok" THEN Some(r.h[r.v]) ELSE None

\* the last call was set_end(e) on a clip with a start
SetEndCase == Returned /\ ret.op = "set_end" /\ heap[ret.recv].start # None
\* the last call was set_duration(d) on a clip with a start
SetDurationCase ==
    /\ Returned
    /\ ret.op = "set_duration"
    /\ ret.a[2]
    /\ ret.a[1] # None
    /\ heap[ret.recv].start # None

\* set_duration(e - s) on the receiver of set_end(e)
ByDuration ==
    Other("set_duration", <<Some(fsub(ret.a[1][1], heap[ret.recv].start[1])), TRUE>>)
\* set_end(s + d) on the receiver of set_duration(d)
ByEnd == Other("set_end", <<Some(fadd(heap[ret.recv].start[1], ret.a[1][1]))>>)

\* C14 as stated: on a clip with start s, set_end(e) returns a clip with
\* end = e and duration = e - s, and set_duration(e - s) returns a clip
\* with the same start, end and duration; set_end(s + d) returns a clip with
\* the same start, end and duration as set_duration(d).
C14_RoundTrip ==
    /\ SetEndCase =>
         /\ heap[ret.v].end = ret.a[1]
         /\ heap[ret.v].duration = Some(fsub(ret.a[1][1], heap[ret.recv].start[1]))
         /\ ByDuration # None
         /\ Triple(ByDuration[1]) = Triple(heap[ret.v])
    /\ SetDurationCase =>
         /\ ByEnd # None
         /\ Triple(ByEnd[1]) = Triple(heap[ret.v])

\* C14 as amended: on a clip with start s, set_end(e) returns a clip with
\* end = e and duration = e - s, and set_duration(e - s) returns a clip with
\* the same start and duration, whose end is s + (e - s): the same end when
\* that sum is e, another one when it is rounded away from e.  set_end(s + d)
\* returns a clip with the same start and end as set_duration(d), whose
\* duration is (s + d) - s: d unless rounded away from it.
C14_RoundTripRounded ==
    /\ SetEndCase =>
         LET s == heap[ret.recv].start[1]
             e == ret.a[1][1]
         IN /\ heap[ret.v].end = Some(e)
            /\ heap[ret.v].duration = Some(fsub(e, s))
            /\ heap[ret.v].start = Some(s)
            /\ ByDuration # None
            /\ ByDuration[1].start = Some(s)
            /\ ByDuration[1].duration = Some(fsub(e, s))
            /\ ByDuration[1].end = Some(fadd(s, fsub(e, s)))
    /\ SetDurationCase =>
         LET s == heap[ret.recv].start[1]
             d == ret.a[1][1]
         IN /\ heap[ret.v].start = Some(s)
            /\ heap[ret.v].end = Some(fadd(s, d))
            /\ heap[ret.v].duration = Some(d)
            /\ ByEnd # None
            /\ ByEnd[1].start = Some(s)
            /\ ByEnd[1].end = Some(fadd(s, d))
            /\ ByEnd[1].duration = Some(fsub(fadd(s, d), s))

\* C14 witness: set_end(e) returned on a clip that starts at 1, e being so
\* far from 1 that e - 1 and 1 + (e - 1) are both rounded
C14_Witness ==
    /\ SetEndCase
    /\ heap[ret.recv].start = Some(1)
    /\ ret.a[1] = Some(2^MantissaBits + 2)
    /\ heap[ret.v].duration = Some(2^MantissaBits)
    /\ ByDuration[1].end = Some(2^MantissaBits)

\* ------------------------------------------------------------------ C11
\* the fun of the last fl or fl_time call
FunOf(r) == IF r.op = "fl_time" THEN [kind |-> "time", name |-> r.a[1]] ELSE r.a[1]

\* fun(g, t), g being the get_frame of clip c
FunOver(h, fun, c, t) ==
    IF fun.kind = "time" THEN get_frame(h, <<>>, c, t_func(fun.name, t))
    ELSE LET g == get_frame(h, <<>>, c, t)
         IN IF g.out # "ok" THEN g
            ELSE FOk(g.h, g.log, Some([g.v[1] EXCEPT !.fx = Append(@, fun.name)]))

\* the clip is one that fl or fl_time returned
IsFl(o) == o.make_frame # None /\ o.make_frame[1].kind = "fl"

\* clip n is what fl(fun, keep_duration) makes of a clip like o
FlOf(h, n, o, fun, keep_duration) ==
    /\ IsFl(h[n])
    /\ h[n].make_frame[1].fun = fun
    /\ h[h[n].make_frame[1].self] = o
    /\ h[n].duration = IF keep_duration THEN o.duration ELSE None

Named(apply_to, ch) == apply_to # None /\ \E i \in DOMAIN apply_to : apply_to[i] = ch

\* C11: fl(fun, apply_to, keep_duration) and fl_time compute no frame; the clip
\* returned has the receiver's duration, or none when keep_duration is False;
\* its frame at every t is fun(g, t), g being the receiver's get_frame; its
\* mask and audio, when named in apply_to and not null, are what
\* fl(fun, keep_duration) makes of the receiver's, and are otherwise carried
\* over with their frame function.
C11_Fl ==
    [][/\ (ret'.op \in {"fl", "fl_time"} /\ ret'.out = "ok") =>
            LET fun == FunOf(ret')
                keep == ret'.a[3]
            IN /\ \A i \in DOMAIN heap : heap'[i] = heap[i]
               /\ Res.duration = IF keep THEN Pre.duration ELSE None
               /\ IsFl(Res)
               /\ Res.make_frame[1] = [kind |-> "fl", self |-> ret'.recv, fun |-> fun]
               /\ \A ch \in {"mask", "audio"} :
                     /\ HasAttr(Res, ch) <=> HasAttr(Pre, ch)
                     /\ IF GetAttr(Pre, ch) = None THEN GetAttr(Res, ch) = None
                        ELSE /\ GetAttr(Res, ch) # None
                             /\ IF Named(ret'.a[2], ch)
                                THEN FlOf(heap', Res[ch][1], heap[Pre[ch][1]], fun, keep)
                                ELSE heap'[Res[ch][1]] = heap[Pre[ch][1]]
       /\ (ret'.op = "get_frame" /\ nops' = nops + 1 /\ IsFl(heap[ret'.recv])) =>
            LET mf == heap[ret'.recv].make_frame[1]
                want == FunOver(heap, mf.fun, mf.self, ret'.a[1])
            IN /\ ret'.out = want.out
               /\ ret'.out = "ok" => Content(ret'.v[1]) = Content(want.v[1])]_<<nops, gen>>

\* ------------------------------------------------------------------ C15
\* the clip, its audio and mask, and theirs
RECURSIVE Descendants(_, _)
Descendants(h, c) ==
    {c} \cup UNION {Descendants(h, ch) :
                      ch \in {GetAttr(h[c], a)[1] :
                                a \in {a \in {"audio", "mask"} : GetAttr(h[c], a) # None}}}

\* the frame function and the cached frame of the clip are released
Released(o) == o.make_frame = None /\ HasAttr(o, "memoized_frame") /\ o.memoized_frame = None

\* the heap with the frame function and the cached frame of the clips S released
ReleaseAll(h, S) ==
    [i \in DOMAIN h |->
        IF i \in S THEN SetAttr([h[i] EXCEPT !.make_frame = None], "memoized_frame", None)
        ELSE h[i]]

\* C15: close never raises; it releases the frame function and the cached
\* frame of the clip, of its audio and mask and of theirs, and changes
\* nothing else, whichever of them were closed before; close on a closed
\* clip changes nothing; get_frame on a closed clip raises ValueError and
\* returns no frame.
C15_Close ==
    [][/\ ret'.op = "close" =>
            /\ ret'.out = "ok"
            /\ \A i \in Descendants(heap, ret'.recv) : Released(heap'[i])
            /\ heap' = ReleaseAll(heap, Descendants(heap, ret'.recv))
            /\ (\A i \in Descendants(heap, ret'.recv) : Released(heap[i])) => heap' = heap
       /\ (ret'.op = "get_frame" /\ nops' = nops + 1 /\ Released(heap[ret'.recv])) =>
            /\ ret'.out = "ValueError"
            /\ ret'.v = None
            /\ heap' = heap]_<<nops, gen>>

\* C15 witness: close returned on a clip that has an audio, memoize on and a
\* frame in its cache, as the fourth call of the program
C15_Witness ==
    /\ nops = 4
    /\ ret.op = "close"
    /\ ret.out = "ok"
    /\ heap[ret.recv].memoize
    /\ heap[ret.recv].memoized_t = Some(0)
    /\ Released(heap[ret.recv])
    /\ GetAttr(heap[ret.recv], "audio") # None
    /\ \A i \in Descendants(heap, ret.recv) : Released(heap[i])

\* ------------------------------------------------------------------ C16
PyEq(x, y) == x = y
Num(n, d) == PyFloat(Rat(n, d))

\* the last call returned the value y
Gives(y) == ret.out = "ok" /\ PyEq(ret.v, y)

AllNumbers(x) == \A i \in DOMAIN x.items : x.items[i].ty = "float"
HasColon(x) == \E i \in DOMAIN x.chars : x.chars[i] = ":"
\* the components of the string, the comma read as a point
Components(x) == Split(Replace(x.chars))
AllNumerals(x) == \A i \in DOMAIN Components(x) : IsNumeral(Components(x)[i])
\* the tuple of the numbers that the components spell
AsTuple(x) ==
    PyTuple([i \in DOMAIN Components(x) |->
               PyFloat(Rat(NumeralInt(Components(x)[i]), 10^Decimals(Components(x)[i])))])

\* what C16 says of every value but a string of another shape
CvRules(x) ==
    /\ x.ty = "NoneType" => Gives(PyNone)
    /\ x.ty = "float" => Gives(x)
    /\ (x.ty = "tuple" /\ AllNumbers(x) /\ Len(x.items) = 1) => Gives(x.items[1])
    /\ (x.ty = "tuple" /\ AllNumbers(x) /\ Len(x.items) = 2) =>
          Gives(PyFloat(RatAdd(RatMul(60, x.items[1].num[1]), x.items[2].num[1])))
    /\ (x.ty = "tuple" /\ AllNumbers(x) /\ Len(x.items) = 3) =>
          Gives(PyFloat(RatAdd(RatAdd(RatMul(3600, x.items[1].num[1]),
                                      RatMul(60, x.items[2].num[1])),
                               x.items[3].num[1])))
    /\ (x.ty = "str" /\ HasColon(x) /\ AllNumerals(x) /\ Len(Components(x)) \in 2..3) =>
          /\ cvsecs(AsTuple(x)).out = "ok"
          /\ Gives(cvsecs(AsTuple(x)).v)
    /\ (x.ty = "str" /\ ~HasColon(x) /\ AllNumerals(x)) => Gives(AsTuple(x).items[1])
    /\ (x.ty = "tuple" /\ ~(Len(x.items) \in 1..3)) => Gives(x)
    /\ x.ty = "dict" => Gives(x)
    /\ PyEq(x, PyTuple(<<Num(1, 1), Num(1, 1), Num(2, 1)>>)) => Gives(Num(3662, 1))

OtherShape(x) ==
    x.ty = "str" /\ HasColon(x) /\ AllNumerals(x) /\ ~(Len(Components(x)) \in 2..3)

\* cvsecs of a value that cvsecs returned is that value
Idempotent == (nops = 2 /\ ret.op = "cvsecs") => Gives(ret.a[1])

FloorIndex(o, t) == (o.fps * t) \div TicksPerSecond

\* the frame at the number t that the rule gives: the row of the table when
\* the index is in the table, a zero sample of the shape of a row otherwise
ScalarFrame(o, t) ==
    LET i == FloorIndex(o, t)
    IN IF 0 <= i /\ i < Len(o.array) THEN o.array[i + 1]
       ELSE [j \in 1..o.nchannels |-> 0]

\* an AudioArrayClip was asked its frame at a number / at an array
ArrayClipAsked(isArray) ==
    /\ ret.op = "get_frame"
    /\ heap[ret.recv].make_frame[1].kind = "array"
    /\ ret.a[1].array = isArray

\* C17: the duration of an AudioArrayClip is len(table) / fps, and its frame at
\* a number t, negative, inside or beyond the table, never raises and is
\* table[floor(fps * t)] when that index is in the table and an all-zero
\* sample of the shape of a row otherwise; so every t < 0 gives the zero
\* sample.
C17_ScalarLookup ==
    /\ (ret.op = "AudioArrayClip" /\ ret.out = "ok") =>
           heap[ret.v].duration[1] * heap[ret.v].fps = Len(heap[ret.v].array) * TicksPerSecond
    /\ ArrayClipAsked(FALSE) =>
           /\ ret.out = "ok"
           /\ ret.v = ScalarFrame(heap[ret.recv], ret.a[1].v[1])
           /\ (ret.a[1].v[1] < 0 => \A j \in DOMAIN ret.v : ret.v[j] = 0)

\* ------------------------------------------------------------------ C20
\* C20: the frame of an AudioArrayClip at an array of times has one row per
\* time and as many columns as the table has channels, and row k is the frame
\* at the number ts[k]: table[floor(fps * ts[k])] when that index is in the
\* table, index 0 included, and a zero row otherwise.
C20_VectorLookup ==
    ArrayClipAsked(TRUE) =>
        /\ ret.out = "ok"
        /\ Len(ret.v) = Len(ret.a[1].v)
        /\ \A k \in DOMAIN ret.v :
               /\ Len(ret.v[k]) = heap[ret.recv].nchannels
               /\ ret.v[k] = ScalarFrame(heap[ret.recv], ret.a[1].v[k])
\* ------------------------------------------------------------------ C18
Composed == ret.op = "CompositeAudioClip" /\ ret.out = "ok"

Clips == [k \in DOMAIN ret.a[1] |-> heap[ret.a[1][k]]]

\* x is the largest of the values s[k]
IsMaxOf(x, s) == (\E k \in DOMAIN s : s[k] = x) /\ (\A k \in DOMAIN s : s[k] <= x)

\* one child of d seconds starting at s seconds with n channels
HasChild(d, s, n) ==
    \E k \in DOMAIN Clips :
        /\ Clips[k].duration = Some(d * TicksPerSecond)
        /\ Clips[k].start = Some(s * TicksPerSecond)
        /\ Clips[k].end = Some((s + d) * TicksPerSecond)
        /\ Clips[k].nchannels = n

\* the composite of a 5-second mono clip at 0 and a 3-second stereo clip at 1
Example18 == Composed /\ Len(Clips) = 2 /\ HasChild(5, 0, 1) /\ HasChild(3, 1, 2)

CompositeAsked(isArray) ==
    /\ ret.op = "get_frame"
    /\ heap[ret.recv].make_frame[1].kind = "composite"
    /\ ret.a[1].array = isArray

\* c.is_playing(t) for a number t
Playing(c, t) == is_playing(heap, c, <<Scalar(t)>>).v.v[1]

\* c.get_frame(t - c.start) for a number t
ChildFrame(c, t) == AudioClip_get_frame(heap, <<>>, c, Scalar(fsub(t, heap[c].start[1]))).v

\* the sum of the frames at t of the clips of the list that are playing at t,
\* added to the vector acc
RECURSIVE SumPlaying(_, _, _)
SumPlaying(clips, t, acc) ==
    IF clips = <<>> THEN acc
    ELSE SumPlaying(Tail(clips), t,
                    IF Playing(Head(clips), t) THEN SampleAdd(acc, ChildFrame(Head(clips), t))
                    ELSE acc)

\* the frame of the composite o at the number t
CompositeFrame(o, t) == SumPlaying(o.clips, t, [j \in 1..o.nchannels |-> 0])

\* C19: the frame of a CompositeAudioClip at a number t is a vector of
\* nchannels components, the sum of c.get_frame(t - c.start) over the children
\* c with c.is_playing(t); a child that is not playing at t is not sampled; the
\* frame is the zero vector when no child is playing.  At an array of times the
\* result has one row per time, and row i is the frame at the number ts[i].
C19_CompositeFrame ==
    /\ CompositeAsked(FALSE) =>
           LET o == heap[ret.recv]
               t == ret.a[1].v[1]
           IN /\ ret.out = "ok"
              /\ Len(ret.v) = o.nchannels
              /\ ret.v = CompositeFrame(o, t)
              /\ \A k \in DOMAIN o.clips :
                     ~Playing(o.clips[k], t) =>
                         ~\E j \in DOMAIN ret.log :
                              j > 1 /\ ret.log[j].clip = o.clips[k]
                              /\ ret.log[j].t = Scalar(fsub(t, heap[o.clips[k]].start[1]))
              /\ (\A k \in DOMAIN o.clips : ~Playing(o.clips[k], t))
                     => \A j \in DOMAIN ret.v : ret.v[j] = 0
    /\ CompositeAsked(TRUE) =>
           LET o == heap[ret.recv]
               ts == ret.a[1].v
           IN /\ ret.out = "ok"
              /\ Len(ret.v) = Len(ts)
              /\ \A i \in DOMAIN ts : ret.v[i] = CompositeFrame(o, ts[i])
\* ------------------------------------------------------------------ C21
\* the attributes that subclip sets, and those that hold the children
TimeAttrs == {"start", "end", "duration"}
ChildAttrs == {"mask", "audio"}

\* the attributes of o that are neither
Rest(o) == [a \in DOMAIN o \ (TimeAttrs \cup ChildAttrs) |-> o[a]]

\* two get_frame calls end the same way with frames that show the same
SameFrame(r1, r2) ==
    /\ r1.out = r2.out
    /\ (r1.out = "ok" /\ r2.out = "ok") =>
           /\ (r1.v = None) = (r2.v = None)
           /\ (r1.v # None /\ r2.v # None) => Content(r1.v[1]) = Content(r2.v[1])

\* clip n shows at every time what clip c shows, and differs from it in its
\* timing only
SameButTiming(c, n) ==
    /\ \A t \in 0..MaxT : SameFrame(get_frame(heap, <<>>, n, t), get_frame(heap, <<>>, c, t))
    /\ Rest(heap[n]) = Rest(heap[c])

SubclipOfInfinite ==
    /\ ret.op = "subclip"
    /\ heap[ret.recv].duration = None
    /\ ret.a[1] # None
    /\ ret.a[1][1] >= 0
    /\ ret.a[2] = None

\* C22: subclip(t_start) with t_end left out, on a clip whose duration is None,
\* returns a clip that starts at t_start and whose end and duration are None.
C22_SubclipInfinite ==
    SubclipOfInfinite =>
        /\ ret.out = "ok"
        /\ heap[ret.v].start = ret.a[1]
        /\ heap[ret.v].end = None
        /\ heap[ret.v].duration = None
\* ------------------------------------------------------------------ C24
\* the tool of the call started and exited with a non-zero code / with 0
ToolFailed == ret.a[3].launch /\ ret.a[3].returncode # 0
ToolSucceeded == ret.a[3].launch /\ ret.a[3].returncode = 0

\* C24: subprocess_call launches the command exactly once; when the tool exits
\* with a non-zero return code the call raises an error whose message is the
\* stderr output of the tool, unchanged; when it exits with 0 the process
\* object is returned and nothing is raised.
C24_SubprocessCall ==
    ret.op = "subprocess_call" =>
        /\ ret.v.launches = 1
        /\ ToolFailed => (ret.out # "ok" /\ ret.v.msg = <<ret.a[3].err>>)
        /\ ToolSucceeded => (ret.out = "ok" /\ ret.v.proc = Some(ret.a[3]))
\* ------------------------------------------------------------------ C23
\* the heap with every cache disabled
Uncached(h) == [i \in DOMAIN h |-> [h[i] EXCEPT !.memoize = FALSE]]
\* a frame without the call that computed it
Shown(v) == IF v = None THEN None ELSE Some(Content(v[1]))
\* the value of the frame function of clip c at t
TrueFrame(c, t) == get_frame(Uncached(heap), <<>>, c, t)

\* the last call of thread i returned the value of the frame function at its t
RightFrame(i) ==
    LET l == threads[i].last[1]
        r == TrueFrame(threads[i].clip, l.t)
    IN l.out = r.out /\ Shown(l.v) = Shown(r.v)
\* no other thread queries the clip of thread i
OwnCopy(i) == \A j \in DOMAIN threads : j # i => threads[j].clip # threads[i].clip

\* two threads on one clip with memoize enabled, and a call that returned a
\* frame computed for another time
SharedCacheRace ==
    \E i \in DOMAIN threads :
        /\ threads[i].last # None
        /\ heap[threads[i].clip].memoize /\ ~OwnCopy(i)
        /\ threads[i].last[1].out = "ok"
        /\ threads[i].last[1].v # None
        /\ threads[i].last[1].v[1].t # threads[i].last[1].t

\* C23: when memoize is disabled on the clip a thread queries, or when each
\* thread queries its own copy of the clip, every get_frame(t) of every
\* interleaving returns the value of the frame function at t (the unsafe case,
\* threads sharing a clip with memoize enabled, is SharedCacheRace).
C23_ThreadSafety ==
    \A i \in DOMAIN threads :
        (threads[i].last # None /\ (~heap[threads[i].clip].memoize \/ OwnCopy(i)))
            => RightFrame(i)
\* ------------------------------------------------------------------ C25
\* the last call was a cutout, or an fl / fl_time with keep_duration = False,
\* that returned, made on a clip whose start, end and duration are defined
DurationChanged ==
    /\ ret.out = "ok"
    /\ \/ ret.op = "cutout"
       \/ ret.op \in {"fl", "fl_time"} /\ ret.a[3] = FALSE
    /\ heap[ret.recv].start # None
    /\ heap[ret.recv].end # None
    /\ heap[ret.recv].duration # None

\* C25: after cutout(ta, tb), and after fl / fl_time with keep_duration=False,
\* on a clip with defined start, end and duration, the returned clip has no
\* defined end together with an undefined duration or with a duration other
\* than end - start.
C25_TimingKept ==
    DurationChanged =>
        LET n == heap[ret.v]
        IN n.end # None =>
              /\ n.duration # None
              /\ n.start # None
              /\ n.duration[1] = fsub(n.end[1], n.start[1])
\* ------------------------------------------------------------------ C26
\* the cache slot of clip c holds the value of c's frame function at memoized_t
SlotCoherent(c) ==
    (heap[c].memoized_t # None /\ heap[c].make_frame # None) =>
        /\ HasAttr(heap[c], "memoized_frame")
        /\ Shown(heap[c].memoized_frame) = Shown(TrueFrame(c, heap[c].memoized_t[1]).v)

\* C26: for every clip reached by get_frame queries and operations from a
\* clip with memoize enabled, a filled cache slot holds the value of the
\* clip's own frame function at memoized_t, and get_frame(t) returns the
\* value of the clip's own frame function at t.
C26_CacheCoherence ==
    /\ \A c \in DOMAIN heap : SlotCoherent(c)
    /\ (ret.op = "get_frame" /\ ret.out = "ok") =>
           Shown(ret.v) = Shown(TrueFrame(ret.recv, ret.a[1]).v)
====
